---------------------------- MODULE Spec2Model ----------------------------
(***************************************************************************)
(* A model of semcp: the policy-to-engine-argument builder (PolicyConfig,  *)
(* src/src/policy.rs), the invocation assembly and supervised child        *)
(* lifecycle of ContainerExecutor (src/common/src/lib.rs) and the main     *)
(* functions of the snpx and suvx binaries that drive it; and the legacy   *)
(* crate (src/src/lib.rs): the search for the policy file, the monitor     *)
(* rule file, the executor's invocation with its monitoring labels and the *)
(* fallback to the host, with the binaries src/src/main.rs and             *)
(* src/src/bin/suvx.rs.                                                    *)
(*                                                                         *)
(* Rust strings are TLA+ strings (Len, SubSeq and \o act on them as on     *)
(* byte sequences of ASCII text).  Option<T> is a sequence of length at    *)
(* most one: None is << >>, Some(v) is <<v>>.  Vec<T> is a sequence.       *)
(***************************************************************************)
EXTENDS Naturals, Integers, Sequences, FiniteSets, TLC

VARIABLES
    pc,             \* position of the running program / which entry point ran
    runner,         \* which Runner implementation the binary uses
    policy_arg,     \* --policy: None, or Some(result of parsing that file)
    policy_config,  \* PolicyConfig.policy of the executor: Option<PolicyDocument>
    docker_image,   \* ContainerExecutor.docker_image
    container_name, \* ContainerExecutor.container_name
    flags,          \* the runner flags main built from the command line
    args,           \* package_args: the pass-through arguments
    transport,      \* the transport handed to create_docker_args
    child,          \* the engine child: "none", "running", "exited", "waiterr"
    child_status,   \* Option<exit code> of the finished child (None: killed by a signal)
    sigint,         \* an interrupt is pending at the ctrl_c() waiter
    engine_cmds,    \* every engine command line the program tried to spawn, in order
    stop_outcome,   \* how the stop request ended: "none", "inflight", "nostart", "ok", "failed"
    result,         \* what run_containerized returned to main
    exit_code,      \* Option<process exit code>
    called,         \* pure-function specifications: the function applied
    ret,            \* pure-function specifications: what it returned
    process_id,     \* legacy crate: std::process::id() of the running process
    security_policy,\* legacy crate: ContainerExecutor.security_policy, Option<SecurityPolicy>
    falco_enabled,  \* legacy crate: ContainerExecutor.falco_enabled
    policy_files,   \* legacy crate: what each candidate path of find_and_load holds
    written,        \* legacy crate: the files written to the temp directory, in order
    sessions,       \* the container names of the executors constructed in this process
    host_cmds       \* the commands run directly on the host (fallback), in order

vars == << pc, runner, policy_arg, policy_config, docker_image, container_name,
           flags, args, transport, child, child_status,
           sigint, engine_cmds, stop_outcome, result, exit_code, called, ret,
           process_id, security_policy, falco_enabled, policy_files, written, sessions,
           host_cmds >>

\* the state only the legacy crate (src/src/lib.rs) and the session registry use
legacy_vars == << process_id, security_policy, falco_enabled, policy_files, written,
                 sessions, host_cmds >>

-----------------------------------------------------------------------------
(* Bounds of the model *)

\* longest storage allow-list drawn
MaxAllow == 2
\* longest capability drop-list / add-list drawn
MaxCaps == 2

-----------------------------------------------------------------------------
(* Option and Vec helpers *)

None == << >>
Some(v) == << v >>
IsSome(o) == o # << >>
Unwrap(o) == o[1]
OptionOf(S) == { None } \cup { Some(v) : v \in S }

SeqsUpTo(S, n) == UNION { [1..k -> S] : k \in 0..n }

\* Vec::contains
Contains(v, x) == \E i \in DOMAIN v : v[i] = x

\* str::starts_with
StartsWith(s, prefix) ==
    /\ Len(s) >= Len(prefix)
    /\ SubSeq(s, 1, Len(prefix)) = prefix

\* &s[n..]
SliceFrom(s, n) == SubSeq(s, n + 1, Len(s))

-----------------------------------------------------------------------------
(* The policy document, as far as PolicyConfig reads it (policy.rs 24-64) *)

\* AccessType values of a storage permission
AccessType == { "Read", "Write" }

\* the access lists drawn for a storage permission
AccessLists == { << >>, << "Read" >>, << "Read", "Write" >> }

\* the URIs drawn: two with the fs:// scheme (the second is the test policy's), one with another scheme
URIs == { "fs:///usr/local/lib", "fs:///tmp/mcp-filesystem", "file:///etc" }

\* the capabilities drawn, named as the policy file writes them
Capability == { "ALL", "NET_ADMIN" }

StoragePermission == [ uri : URIs, access : AccessLists ]
StorageSection == [ allow : OptionOf(SeqsUpTo(StoragePermission, MaxAllow)) ]
CapabilitiesSection == [ drop : OptionOf(SeqsUpTo(Capability, MaxCaps)),
                         add  : OptionOf(SeqsUpTo(Capability, MaxCaps)) ]
SecuritySection == [ privileged : OptionOf(BOOLEAN),
                     capabilities : OptionOf(CapabilitiesSection) ]
DockerSection == [ security : OptionOf(SecuritySection) ]
RuntimeSection == [ docker : OptionOf(DockerSection) ]
Permissions == [ storage : OptionOf(StorageSection),
                 runtime : OptionOf(RuntimeSection) ]
PolicyDocument == [ permissions : Permissions ]

\* format!("{:?}", cap): the derived Debug of the capability enum prints the
\* variant's identifier
DebugFmt(cap) ==
    CASE cap = "ALL" -> "All"
      [] cap = "NET_ADMIN" -> "NetAdmin"

\* policy.rs 36-39 and 42-45: one pair per capability, in list order
RECURSIVE CapPairs(_, _)
CapPairs(flag, caps) ==
    IF caps = << >> THEN << >>
    ELSE << flag, DebugFmt(Head(caps)) >> \o CapPairs(flag, Tail(caps))

\* a variant of PrivilegedArgs that reads an absent privileged as false
PrivilegedArgs_absent_is_false(security) ==
    IF ~IsSome(security.privileged) \/ ~Unwrap(security.privileged)
    THEN << "--security-opt", "no-new-privileges" >>
    ELSE << >>

\* a variant of PrivilegedArgs with the test of privileged inverted
PrivilegedArgs_inverted(security) ==
    IF IsSome(security.privileged) /\ Unwrap(security.privileged)
    THEN << "--security-opt", "no-new-privileges" >>
    ELSE << >>

\* policy.rs 28-33
PrivilegedArgs(security) ==
    IF IsSome(security.privileged) /\ ~Unwrap(security.privileged)
    THEN << "--security-opt", "no-new-privileges" >>
    ELSE << >>

\* policy.rs 34-47
CapabilityArgs(security) ==
    IF IsSome(security.capabilities)
    THEN LET capabilities == Unwrap(security.capabilities) IN
         (IF IsSome(capabilities.drop)
          THEN CapPairs("--cap-drop", Unwrap(capabilities.drop)) ELSE << >>)
         \o
         (IF IsSome(capabilities.add)
          THEN CapPairs("--cap-add", Unwrap(capabilities.add)) ELSE << >>)
    ELSE << >>

\* PolicyConfig::map_docker_security_args; policy is self.policy
map_docker_security_args(policy) ==
    IF ~IsSome(policy) THEN << >>
    ELSE LET runtime == Unwrap(policy).permissions.runtime IN
         IF ~IsSome(runtime) THEN << >>
         ELSE LET docker == Unwrap(runtime).docker IN
              IF ~IsSome(docker) THEN << >>
              ELSE LET security == Unwrap(docker).security IN
                   IF ~IsSome(security) THEN << >>
                   ELSE PrivilegedArgs(Unwrap(security))
                        \o CapabilityArgs(Unwrap(security))

\* a variant of MountMode that decides on Read instead of Write
MountMode_on_read(storage_permission) ==
    LET readonly == Contains(storage_permission.access, "Read")
    IN  IF readonly THEN "ro" ELSE "rw"

\* policy.rs 64-65
MountMode(storage_permission) ==
    LET readonly == ~Contains(storage_permission.access, "Write")
    IN  IF readonly THEN "ro" ELSE "rw"

\* a variant of MountPair without the scheme test
MountPair_any_scheme(storage_permission) ==
    LET path == SliceFrom(storage_permission.uri, 5)
        mode == IF Contains(storage_permission.access, "Write") THEN "rw" ELSE "ro"
    IN  << "-v", path \o ":" \o path \o ":" \o mode >>

\* policy.rs 62-69: the body of the loop for one storage permission
MountPair(storage_permission) ==
    IF StartsWith(storage_permission.uri, "fs://")
    THEN LET path == SliceFrom(storage_permission.uri, 5)
             mode == MountMode(storage_permission)
         IN  << "-v", path \o ":" \o path \o ":" \o mode >>
    ELSE << >>

\* policy.rs 61-70: the loop over the allow-list
RECURSIVE MountPairs(_)
MountPairs(allow_list) ==
    IF allow_list = << >> THEN << >>
    ELSE MountPair(Head(allow_list)) \o MountPairs(Tail(allow_list))

\* PolicyConfig::map_file_mounts; policy is self.policy
map_file_mounts(policy) ==
    IF ~IsSome(policy) THEN << >>
    ELSE LET storage == Unwrap(policy).permissions.storage IN
         IF ~IsSome(storage) THEN << >>
         ELSE LET allow == Unwrap(storage).allow IN
              IF ~IsSome(allow) THEN << >>
              ELSE MountPairs(Unwrap(allow))

\* a variant of get_all_docker_args with the two groups swapped
get_all_docker_args_security_first(policy) ==
    map_docker_security_args(policy) \o map_file_mounts(policy)

\* PolicyConfig::get_all_docker_args
get_all_docker_args(policy) ==
    map_file_mounts(policy) \o map_docker_security_args(policy)

-----------------------------------------------------------------------------
(* Runners (common/src/lib.rs 37-55 and the two binaries) *)

Transports == { "Stdio", "Http", "SSE" }

\* the Runner implementations of the snpx and suvx binaries
Runners == { "SnpxRunner", "SuvxRunner" }

\* Runner::command
command(r) == IF r = "SnpxRunner" THEN "npx" ELSE "uvx"

\* Runner::default_image (ImageVariants::get_node_recommended / get_python_recommended)
default_image(r) ==
    IF r = "SnpxRunner" THEN "node:24-alpine"
    ELSE "ghcr.io/astral-sh/uv:python3.12-alpine"

\* a variant of detect_transport that takes one package for an HTTP server
detect_transport_by_name(r, package) ==
    IF package = "cowsay" THEN "Http" ELSE "Stdio"

\* Runner::detect_transport: both binaries answer Stdio for every package
detect_transport(r, package) == "Stdio"

\* Runner::requires_tty: matches!(transport, Transport::Http | Transport::SSE)
requires_tty(r, t) == t = "Http" \/ t = "SSE"

\* Runner::additional_docker_args: the trait's default, which neither binary overrides
additional_docker_args(r) == << >>

\* Runner::build_command_args
build_command_args(r, fl, ar) == << command(r) >> \o fl \o ar

-----------------------------------------------------------------------------
(* ContainerExecutor (common/src/lib.rs 57-177) *)

\* format!("{}", n) of an unsigned integer
RECURSIVE ToDec(_)
ToDec(n) ==
    LET digit == << "0", "1", "2", "3", "4", "5", "6", "7", "8", "9" >>
    IN  IF n < 10 THEN digit[n + 1]
        ELSE ToDec(n \div 10) \o digit[(n % 10) + 1]

\* with_policy, lines 70-74: the name from the process id and the clock reading
ContainerName(pid, timestamp) ==
    "container-" \o ToDec(pid) \o "-" \o ToDec(timestamp)

\* a variant of create_docker_args that appends the policy args after the image
create_docker_args_policy_after_image(self, r, cmd_args, t) ==
    << "run", "--rm", "-i", "--name", self.container_name >>
    \o (IF requires_tty(r, t) THEN << "-t" >> ELSE << >>)
    \o additional_docker_args(r)
    \o << self.docker_image >>
    \o get_all_docker_args(self.policy_config)
    \o cmd_args

\* ContainerExecutor::create_docker_args; self is the executor's fields
create_docker_args(self, r, cmd_args, t) ==
    << "run", "--rm", "-i", "--name", self.container_name >>
    \o (IF requires_tty(r, t) THEN << "-t" >> ELSE << >>)
    \o get_all_docker_args(self.policy_config)
    \o additional_docker_args(r)
    \o << self.docker_image >>
    \o cmd_args

\* the executor as the variables hold it
Executor ==
    [ docker_image |-> docker_image,
      container_name |-> container_name,
      policy_config |-> policy_config ]

\* run_containerized, lines 128-132: the invocation it hands to the engine
RunInvocation(self, r, fl, ar) ==
    LET package_name == IF ar = << >> THEN "" ELSE Head(ar)
        t == detect_transport(r, package_name)
        cmd_args == build_command_args(r, fl, ar)
    IN  create_docker_args(self, r, cmd_args, t)

\* a variant of StopInvocation that addresses the image instead of the session
StopInvocation_by_image(self) == << "stop", self.docker_image >>

\* cleanup, lines 159-160: the stop request
StopInvocation(self) == << "stop", self.container_name >>

-----------------------------------------------------------------------------
(* Inputs drawn for a run of the binaries *)

\* a document with every section absent
EmptyDocument == [ permissions |-> [ storage |-> None, runtime |-> None ] ]

\* a document in the shape of the repository's test policy: one read-only
\* mount, privileged false, drop ALL
SampleDocument ==
    [ permissions |->
        [ storage |-> Some([ allow |-> Some(<< [ uri |-> "fs:///tmp/mcp-filesystem", access |-> << "Read" >> ] >>) ]),
          runtime |-> Some([ docker |-> Some([ security |-> Some(
                        [ privileged |-> Some(FALSE),
                          capabilities |-> Some([ drop |-> Some(<< "ALL" >>), add |-> None ]) ]) ]) ]) ] ]

\* what PolicyParser::parse_file makes of the file named by --policy
ParseResults ==
    { [ ok |-> FALSE, doc |-> EmptyDocument ],
      [ ok |-> TRUE, doc |-> EmptyDocument ],
      [ ok |-> TRUE, doc |-> SampleDocument ] }

\* the flag lists the binaries' main functions build for their runner
FlagLists(r) ==
    IF r = "SnpxRunner" THEN { << "-y" >>, << "--no-install", "-q" >> }
    ELSE { << >>, << "--python", "3.12" >> }

ArgLists == { << >>, << "cowsay" >>, << "cowsay", "hello" >> }

\* pass-through arguments, one list with an argument spelled like the
\* engine's terminal option (snpx cowsay -- -t)
TtyArgLists == ArgLists \cup { << "cowsay", "-t" >> }

Images(r) == { default_image(r), "node:20" }

\* process ids and clock readings (nanoseconds) drawn for the session name
Pids == { 7, 4242 }
Clocks == { 5, 1700000000 }

\* exit codes a child may end with
ExitCodes == { 0, 1, 2, 130 }

\* Result<ExitStatus> values: Ok(status) with the status' Option<code>, or Err
OkStatus(code) == [ ok |-> TRUE, code |-> code, err |-> "" ]
Err(context) == [ ok |-> FALSE, code |-> None, err |-> context ]
NoResult == [ ok |-> FALSE, code |-> None, err |-> "none" ]

\* the parts of the state only the pure-function specifications use
NoCall == called = "none" /\ ret = << >>

\* the parts of the state only a run of a binary uses, before it starts
NoRun ==
    /\ policy_arg = None
    /\ child = "none" /\ child_status = None /\ sigint = FALSE
    /\ engine_cmds = << >> /\ stop_outcome = "none"
    /\ result = NoResult /\ exit_code = None

\* the legacy crate's state where it plays no part
NoLegacy ==
    /\ process_id = 0
    /\ security_policy = None
    /\ falco_enabled = FALSE
    /\ policy_files = << >>
    /\ written = << >>
    /\ sessions = << >>
    /\ host_cmds = << >>

-----------------------------------------------------------------------------
(* A run of snpx or suvx (snpx/src/main.rs 125-211, suvx/src/main.rs 213-262) *)

Init ==
    /\ pc = "main"
    /\ runner \in Runners
    /\ policy_arg \in OptionOf(ParseResults)
    /\ policy_config = None
    /\ docker_image \in Images(runner)
    /\ container_name = ""
    /\ flags \in FlagLists(runner)
    /\ args \in ArgLists
    /\ transport = "Stdio"
    /\ child = "none" /\ child_status = None /\ sigint = FALSE
    /\ engine_cmds = << >> /\ stop_outcome = "none"
    /\ result = NoResult /\ exit_code = None
    /\ NoCall
    /\ NoLegacy

\* std::process::exit(code), or main returning
Exit(code) ==
    /\ pc' = "exited"
    /\ exit_code' = Some(code)

\* main 128-131: no package argument
NoPackage ==
    /\ pc = "main"
    /\ args = << >>
    /\ Exit(1)
    /\ UNCHANGED << runner, policy_arg, policy_config, docker_image, container_name,
                    flags, args, transport, child, child_status, sigint,
                    engine_cmds, stop_outcome, result, called, ret >>
    /\ UNCHANGED legacy_vars

\* a variant of LoadPolicy that goes on without a policy when the file fails to parse
LoadPolicy_parse_error_ignored ==
    /\ pc = "main"
    /\ args # << >>
    /\ policy_config' = IF IsSome(policy_arg) /\ Unwrap(policy_arg).ok
                        THEN Some(Unwrap(policy_arg).doc) ELSE None
    /\ pc' = "construct"
    /\ UNCHANGED << runner, policy_arg, docker_image, container_name,
                    flags, args, transport, child, child_status, sigint,
                    engine_cmds, stop_outcome, result, exit_code, called, ret >>
    /\ UNCHANGED legacy_vars

\* main 139-146: PolicyConfig::from_file for --policy, PolicyConfig::new without;
\* a parse error leaves main through `?`, which ends the process with code 1
LoadPolicy ==
    /\ pc = "main"
    /\ args # << >>
    /\ IF IsSome(policy_arg) /\ ~Unwrap(policy_arg).ok
       THEN /\ Exit(1)
            /\ UNCHANGED policy_config
       ELSE /\ policy_config' = IF IsSome(policy_arg)
                                THEN Some(Unwrap(policy_arg).doc) ELSE None
            /\ pc' = "construct"
            /\ UNCHANGED exit_code
    /\ UNCHANGED << runner, policy_arg, docker_image, container_name,
                    flags, args, transport, child, child_status, sigint,
                    engine_cmds, stop_outcome, result, called, ret >>
    /\ UNCHANGED legacy_vars

\* main 148: ContainerExecutor::with_policy names the session
WithPolicy ==
    /\ pc = "construct"
    /\ \E pid \in Pids, timestamp \in Clocks :
          container_name' = ContainerName(pid, timestamp)
    /\ pc' = "check_docker"
    /\ UNCHANGED << runner, policy_arg, policy_config, docker_image,
                    flags, args, transport, child, child_status, sigint,
                    engine_cmds, stop_outcome, result, exit_code, called, ret >>
    /\ UNCHANGED legacy_vars

\* check_docker_available, lines 87-88: the probe of the engine
VersionInvocation == << "--version" >>

\* main 185-196 with check_docker_available (lib.rs 83-94): when the engine
\* binary is not found the answer is false; when it is, `docker --version` is
\* run and the answer is whether it succeeded, or an error when it could not
\* be executed; false and the error both end the process with code 1
CheckDockerAvailable ==
    /\ pc = "check_docker"
    /\ \E answer \in { "notfound", "true", "false", "err" } :
          /\ engine_cmds' = IF answer = "notfound" THEN engine_cmds
                            ELSE Append(engine_cmds, VersionInvocation)
          /\ IF answer = "true"
             THEN pc' = "run" /\ UNCHANGED exit_code
             ELSE Exit(1)
    /\ UNCHANGED << runner, policy_arg, policy_config, docker_image, container_name,
                    flags, args, transport, child, child_status, sigint,
                    stop_outcome, result, called, ret >>
    /\ UNCHANGED legacy_vars

\* a variant of RunContainerized that tries again after a spawn failure
RunContainerized_retry ==
    /\ pc = "run"
    /\ engine_cmds' = Append(engine_cmds, RunInvocation(Executor, runner, flags, args))
    /\ \E spawned \in BOOLEAN :
          IF spawned
          THEN /\ child' = "running"
               /\ pc' = "waiting"
               /\ UNCHANGED result
          ELSE /\ result' = Err("Failed to spawn docker command")
               /\ pc' = "run"
               /\ UNCHANGED child
    /\ UNCHANGED << runner, policy_arg, policy_config, docker_image, container_name,
                    flags, args, transport, child_status, sigint,
                    stop_outcome, exit_code, called, ret >>
    /\ UNCHANGED legacy_vars

\* run_containerized 128-142: build the invocation and spawn the engine child;
\* a spawn failure is returned to main
RunContainerized ==
    /\ pc = "run"
    /\ engine_cmds' = Append(engine_cmds, RunInvocation(Executor, runner, flags, args))
    /\ \E spawned \in BOOLEAN :
          IF spawned
          THEN /\ child' = "running"
               /\ pc' = "waiting"
               /\ UNCHANGED result
          ELSE /\ result' = Err("Failed to spawn docker command")
               /\ pc' = "result"
               /\ UNCHANGED child
    /\ UNCHANGED << runner, policy_arg, policy_config, docker_image, container_name,
                    flags, args, transport, child_status, sigint,
                    stop_outcome, exit_code, called, ret >>
    /\ UNCHANGED legacy_vars

\* the engine child ends, with an exit code or killed by a signal
ChildExits ==
    /\ pc \in { "waiting", "cleanup" }
    /\ child = "running"
    /\ child' = "exited"
    /\ \E status \in OptionOf(ExitCodes) : child_status' = status
    /\ UNCHANGED << pc, runner, policy_arg, policy_config, docker_image, container_name,
                    flags, args, transport, sigint,
                    engine_cmds, stop_outcome, result, exit_code, called, ret >>
    /\ UNCHANGED legacy_vars

\* waiting on the child fails
ChildWaitFails ==
    /\ pc = "waiting"
    /\ child = "running"
    /\ child' = "waiterr"
    /\ UNCHANGED << pc, runner, policy_arg, policy_config, docker_image, container_name,
                    flags, args, transport, child_status, sigint,
                    engine_cmds, stop_outcome, result, exit_code, called, ret >>
    /\ UNCHANGED legacy_vars

\* an interrupt signal arrives while run_containerized waits; the ctrl_c()
\* listener exists only from the select! on, and signals before it are not
\* part of this model
Interrupt ==
    /\ pc = "waiting"
    /\ ~sigint
    /\ sigint' = TRUE
    /\ UNCHANGED << pc, runner, policy_arg, policy_config, docker_image, container_name,
                    flags, args, transport, child, child_status,
                    engine_cmds, stop_outcome, result, exit_code, called, ret >>
    /\ UNCHANGED legacy_vars

\* a variant of SelectChild that stops the session once the child's end is seen
SelectChild_then_stop ==
    /\ pc = "waiting"
    /\ child \in { "exited", "waiterr" }
    /\ result' = IF child = "exited" THEN OkStatus(child_status)
                 ELSE Err("Failed to wait for docker command")
    /\ engine_cmds' = Append(engine_cmds, StopInvocation(Executor))
    /\ pc' = "result"
    /\ UNCHANGED << runner, policy_arg, policy_config, docker_image, container_name,
                    flags, args, transport, child, child_status, sigint,
                    stop_outcome, exit_code, called, ret >>
    /\ UNCHANGED legacy_vars

\* select!, lines 145-147: the child.wait() branch is taken
SelectChild ==
    /\ pc = "waiting"
    /\ child \in { "exited", "waiterr" }
    /\ result' = IF child = "exited" THEN OkStatus(child_status)
                 ELSE Err("Failed to wait for docker command")
    /\ pc' = "result"
    /\ UNCHANGED << runner, policy_arg, policy_config, docker_image, container_name,
                    flags, args, transport, child, child_status, sigint,
                    engine_cmds, stop_outcome, exit_code, called, ret >>
    /\ UNCHANGED legacy_vars

\* a variant of SelectCtrlC that goes back to waiting after the stop request
SelectCtrlC_keeps_waiting ==
    /\ pc = "waiting"
    /\ sigint
    /\ engine_cmds' = Append(engine_cmds, StopInvocation(Executor))
    /\ \E outcome \in { "nostart", "ok", "failed" } : stop_outcome' = outcome
    /\ sigint' = FALSE
    /\ UNCHANGED << pc, runner, policy_arg, policy_config, docker_image, container_name,
                    flags, args, transport, child, child_status,
                    result, exit_code, called, ret >>
    /\ UNCHANGED legacy_vars

\* select!, lines 148-154: the ctrl_c() branch is taken and cleanup() issues the
\* stop request; when the request cannot be started, output() fails at once,
\* cleanup returns Ok and the process exits with 130
SelectCtrlC ==
    /\ pc = "waiting"
    /\ sigint
    /\ engine_cmds' = Append(engine_cmds, StopInvocation(Executor))
    /\ \E started \in BOOLEAN :
          IF started
          THEN /\ stop_outcome' = "inflight"
               /\ pc' = "cleanup"
               /\ UNCHANGED exit_code
          ELSE /\ stop_outcome' = "nostart"
               /\ Exit(130)
    /\ UNCHANGED << runner, policy_arg, policy_config, docker_image, container_name,
                    flags, args, transport, child, child_status, sigint,
                    result, called, ret >>
    /\ UNCHANGED legacy_vars

\* cleanup 159-163 and line 153: the awaited stop request ends, well or not;
\* its outcome is dropped and the process exits with 130
StopCompletes ==
    /\ pc = "cleanup"
    /\ \E outcome \in { "ok", "failed" } : stop_outcome' = outcome
    /\ Exit(130)
    /\ UNCHANGED << runner, policy_arg, policy_config, docker_image, container_name,
                    flags, args, transport, child, child_status, sigint,
                    engine_cmds, result, called, ret >>
    /\ UNCHANGED legacy_vars

\* a variant of MainMatch that reports only success or failure
MainMatch_success_only ==
    /\ pc = "result"
    /\ IF result.ok /\ result.code = Some(0)
       THEN Exit(0)
       ELSE Exit(1)
    /\ UNCHANGED << runner, policy_arg, policy_config, docker_image, container_name,
                    flags, args, transport, child, child_status, sigint,
                    engine_cmds, stop_outcome, result, called, ret >>
    /\ UNCHANGED legacy_vars

\* a variant of MainMatch that reports a child ended by a signal as an interrupt
MainMatch_signal_as_130 ==
    /\ pc = "result"
    /\ IF result.ok
       THEN IF IsSome(result.code) THEN Exit(Unwrap(result.code)) ELSE Exit(130)
       ELSE Exit(1)
    /\ UNCHANGED << runner, policy_arg, policy_config, docker_image, container_name,
                    flags, args, transport, child, child_status, sigint,
                    engine_cmds, stop_outcome, result, called, ret >>
    /\ UNCHANGED legacy_vars

\* main 198-210: the exit code from run_containerized's result
MainMatch ==
    /\ pc = "result"
    /\ IF result.ok /\ IsSome(result.code)
       THEN Exit(Unwrap(result.code))
       ELSE Exit(1)
    /\ UNCHANGED << runner, policy_arg, policy_config, docker_image, container_name,
                    flags, args, transport, child, child_status, sigint,
                    engine_cmds, stop_outcome, result, called, ret >>
    /\ UNCHANGED legacy_vars

Next ==
    \/ NoPackage
    \/ LoadPolicy
    \/ WithPolicy
    \/ CheckDockerAvailable
    \/ RunContainerized
    \/ ChildExits
    \/ ChildWaitFails
    \/ Interrupt
    \/ SelectChild
    \/ SelectCtrlC
    \/ StopCompletes
    \/ MainMatch

Spec == Init /\ [][Next]_vars

\* the steps the program itself takes; the runtime schedules them whenever one
\* is possible, while the child, the signal and the stop request are up to
\* the environment
ProgramStep ==
    \/ NoPackage
    \/ LoadPolicy
    \/ WithPolicy
    \/ CheckDockerAvailable
    \/ RunContainerized
    \/ SelectChild
    \/ SelectCtrlC
    \/ MainMatch

FairSpec == Spec /\ WF_vars(ProgramStep)

-----------------------------------------------------------------------------
(* The policy builder applied to every document within the bounds *)

InitPolicy ==
    /\ pc = "policy"
    /\ policy_config \in OptionOf(PolicyDocument)
    /\ runner = "SnpxRunner"
    /\ docker_image = default_image("SnpxRunner")
    /\ container_name = ""
    /\ flags = << >> /\ args = << >>
    /\ transport = "Stdio"
    /\ NoRun
    /\ NoCall
    /\ NoLegacy

\* what every call of a pure function leaves alone
Returned(name, value) ==
    /\ called' = name
    /\ ret' = value
    /\ pc' = "returned"
    /\ UNCHANGED << runner, policy_arg, policy_config, docker_image, container_name,
                    flags, args, transport, child, child_status, sigint,
                    engine_cmds, stop_outcome, result, exit_code >>
    /\ UNCHANGED legacy_vars

CallMapFileMounts ==
    /\ pc = "policy"
    /\ Returned("map_file_mounts", map_file_mounts(policy_config))

CallMapDockerSecurityArgs ==
    /\ pc = "policy"
    /\ Returned("map_docker_security_args", map_docker_security_args(policy_config))

CallGetAllDockerArgs ==
    /\ pc = "policy"
    /\ Returned("get_all_docker_args", get_all_docker_args(policy_config))

NextPolicy ==
    \/ CallMapFileMounts
    \/ CallMapDockerSecurityArgs
    \/ CallGetAllDockerArgs

SpecPolicy == InitPolicy /\ [][NextPolicy]_vars

-----------------------------------------------------------------------------
(* create_docker_args applied to every runner, transport and input drawn *)

\* a document with a writable mount, a skipped URI and an added capability
WritableDocument ==
    [ permissions |->
        [ storage |-> Some([ allow |-> Some(<< [ uri |-> "file:///etc", access |-> << "Read" >> ],
                                               [ uri |-> "fs:///tmp/mcp-filesystem", access |-> << "Read", "Write" >> ] >>) ]),
          runtime |-> Some([ docker |-> Some([ security |-> Some(
                        [ privileged |-> Some(TRUE),
                          capabilities |-> Some([ drop |-> Some(<< "ALL" >>),
                                                  add |-> Some(<< "NET_ADMIN" >>) ]) ]) ]) ]) ] ]

ArgsPolicies ==
    { None, Some(EmptyDocument), Some(SampleDocument), Some(WritableDocument) }

InitArgs ==
    /\ pc = "executor"
    /\ runner \in Runners
    /\ policy_config \in ArgsPolicies
    /\ docker_image \in Images(runner)
    /\ container_name \in { ContainerName(pid, timestamp) : pid \in Pids, timestamp \in Clocks }
    /\ flags \in FlagLists(runner)
    /\ args \in TtyArgLists
    /\ transport \in Transports
    /\ NoRun
    /\ NoCall
    /\ NoLegacy

\* create_docker_args on the command line build_command_args makes, as
\* run_containerized calls it (lines 131-132), for any transport
CallCreateDockerArgs ==
    /\ pc = "executor"
    /\ Returned("create_docker_args",
                create_docker_args(Executor, runner,
                                   build_command_args(runner, flags, args), transport))

NextArgs == CallCreateDockerArgs

SpecArgs == InitArgs /\ [][NextArgs]_vars

-----------------------------------------------------------------------------
(* Properties: the session lifecycle *)

\* the positions in cmds of the engine commands with the given subcommand
CmdsOf(cmds, sub) == { i \in DOMAIN cmds : cmds[i][1] = sub }

\* C1: create_docker_args returns exactly run, --rm, -i, --name, <session name>;
\* -t if and only if the transport requires a terminal; the policy-derived
\* args; the runner's additional args; the image; then the command, the flags
\* and the pass-through arguments, so that the image is followed by the command
\* and every flag precedes every positional argument.
C1_InvocationOrder ==
    called = "create_docker_args" =>
        LET tty == IF transport \in { "Http", "SSE" } THEN << "-t" >> ELSE << >>
            head == << "run", "--rm", "-i", "--name", container_name >> \o tty
            policy_args == get_all_docker_args(policy_config)
            extra == additional_docker_args(runner)
            imageAt == Len(head) + Len(policy_args) + Len(extra) + 1
        IN  /\ ret = head \o policy_args \o extra \o << docker_image >>
                     \o << command(runner) >> \o flags \o args
            /\ Len(ret) = imageAt + 1 + Len(flags) + Len(args)
            /\ ret[imageAt] = docker_image
            /\ ret[imageAt + 1] = command(runner)
            /\ \A i \in 1..Len(flags) : ret[imageAt + 1 + i] = flags[i]
            /\ \A j \in 1..Len(args) : ret[imageAt + 1 + Len(flags) + j] = args[j]
            /\ (ret[6] = "-t") <=> requires_tty(runner, transport)

C1_Witness ==
    /\ called = "create_docker_args"
    /\ transport = "Http"
    /\ policy_config = Some(WritableDocument)
    /\ flags = << "--no-install", "-q" >>
    /\ args = << "cowsay", "hello" >>
    /\ ret[6] = "-t"
    /\ ret[7] = "-v"
    /\ ret[Len(ret) - 4] = "npx"

\* C2: when the child has completed with exit code c while the executor waits,
\* the program goes on to terminate with exit code exactly c, whatever c is,
\* unless an interrupt is pending at the wait as well; once the wait has
\* returned the child's status the program terminates with c in every case;
\* and no stop request is ever issued in a run whose wait returned.
C2_ChildCodePropagated ==
    /\ \A c \in ExitCodes :
          (pc = "waiting" /\ child = "exited" /\ child_status = Some(c))
              ~> ((pc = "exited" /\ exit_code = Some(c)) \/ sigint)
    /\ \A c \in ExitCodes :
          (pc = "result" /\ result = OkStatus(Some(c)))
              ~> (pc = "exited" /\ exit_code = Some(c))
    /\ [](result.ok => CmdsOf(engine_cmds, "stop") = { })

C2_Witness ==
    /\ pc = "exited"
    /\ ~sigint
    /\ result = OkStatus(Some(130))
    /\ exit_code = Some(130)
    /\ CmdsOf(engine_cmds, "stop") = { }

\* C3: an interrupt pending while the executor waits on a running child leads
\* to the stop request; once the interrupt branch of the wait is taken there is
\* exactly one stop request, issued after the run invocation and addressed to
\* the name that follows --name in it, and the process exits with code 130
\* whether the stop request succeeded, failed or could not be started.
C3_InterruptStopsThenExits130 ==
    /\ (pc = "waiting" /\ sigint /\ child = "running")
          ~> (stop_outcome # "none" \/ child # "running")
    /\ [](stop_outcome # "none" =>
            /\ Cardinality(CmdsOf(engine_cmds, "stop")) = 1
            /\ Cardinality(CmdsOf(engine_cmds, "run")) = 1
            /\ LET run == engine_cmds[CHOOSE i \in CmdsOf(engine_cmds, "run") : TRUE]
                   stopAt == CHOOSE i \in CmdsOf(engine_cmds, "stop") : TRUE
               IN  /\ run[4] = "--name"
                   /\ engine_cmds[stopAt] = << "stop", run[5] >>
                   /\ stopAt = Len(engine_cmds)
            /\ \A outcome \in { "ok", "failed", "nostart" } :
                  stop_outcome = outcome => (pc = "exited" /\ exit_code = Some(130)))

C3_Witness ==
    /\ pc = "exited"
    /\ stop_outcome = "failed"
    /\ exit_code = Some(130)
    /\ child = "running"
    /\ engine_cmds[Len(engine_cmds)] = << "stop", "container-4242-1700000000" >>

\* C4: a session that was spawned ends through exactly one branch of the wait:
\* either the wait's result is returned, no stop request is issued and the exit
\* code is 130 only if the child's own code is 130, or the interrupt branch
\* ran, with one stop request and exit code 130; never both, never neither.
C4_ExactlyOneBranch ==
    /\ ~(result # NoResult /\ CmdsOf(engine_cmds, "stop") # { })
    /\ (pc = "exited" /\ child # "none") =>
          \/ /\ result # NoResult
             /\ stop_outcome = "none"
             /\ CmdsOf(engine_cmds, "stop") = { }
             /\ (exit_code = Some(130) => child_status = Some(130))
          \/ /\ result = NoResult
             /\ Cardinality(CmdsOf(engine_cmds, "stop")) = 1
             /\ exit_code = Some(130)

\* both events were ready when the wait resolved, and the child's branch won
C4_Witness ==
    /\ pc = "exited"
    /\ sigint
    /\ child = "exited"
    /\ result = OkStatus(Some(0))
    /\ exit_code = Some(0)

\* the session state of section 4.5, read off the program's position
SessionState(p, res, stop) ==
    CASE p \in { "main", "construct" } -> "NoSession"
      [] p \in { "check_docker", "run" } -> "Created"
      [] p = "waiting" -> "Running"
      [] p = "cleanup" -> "Interrupted"
      [] p = "result" -> IF res.ok THEN "Exited" ELSE "Failed"
      [] p = "exited" -> IF stop # "none" THEN "Interrupted"
                         ELSE IF res.ok THEN "Exited"
                         ELSE IF res # NoResult THEN "Failed"
                         ELSE "Aborted"

\* C5: the session moves Created -> Running -> Exited | Interrupted only: the
\* run child is spawned at most once and only from Created, Running is entered
\* only from Created, no state once left is entered again, and a session that
\* has exited, was interrupted or failed (spawn or wait failure) stays there.
C5_SessionStateMachine ==
    [][ LET s == SessionState(pc, result, stop_outcome)
            t == SessionState(pc', result', stop_outcome')
        IN  /\ Cardinality(CmdsOf(engine_cmds', "run")) <= 1
            /\ (CmdsOf(engine_cmds', "run") # CmdsOf(engine_cmds, "run")) => s = "Created"
            /\ (t = "Running") => s \in { "Created", "Running" }
            /\ (t = "Created") => s \in { "NoSession", "Created" }
            /\ (s = "Running") => t \in { "Running", "Exited", "Interrupted", "Failed" }
            /\ (s \in { "Exited", "Interrupted", "Failed", "Aborted" }) => t = s
            /\ (pc = "exited") => FALSE
      ]_vars

\* a spawn failure was reported and the program ended with the one attempt
C5_Witness ==
    /\ pc = "exited"
    /\ result = Err("Failed to spawn docker command")
    /\ Cardinality(CmdsOf(engine_cmds, "run")) = 1
    /\ exit_code = Some(1)

-----------------------------------------------------------------------------
(* Properties: the policy builder *)

\* what a policy declares, with every absent section read as empty
DeclaredAllow(policy) ==
    IF policy = None THEN << >>
    ELSE LET storage == policy[1].permissions.storage IN
         IF storage = None \/ storage[1].allow = None THEN << >>
         ELSE storage[1].allow[1]

\* the security section of a policy, None when any enclosing section is absent
DeclaredSecurity(policy) ==
    IF policy = None THEN None
    ELSE LET runtime == policy[1].permissions.runtime IN
         IF runtime = None \/ runtime[1].docker = None THEN None
         ELSE runtime[1].docker[1].security

DeclaredPrivileged(policy) ==
    IF DeclaredSecurity(policy) = None THEN None
    ELSE DeclaredSecurity(policy)[1].privileged

DeclaredDrop(policy) ==
    LET security == DeclaredSecurity(policy) IN
    IF security = None \/ security[1].capabilities = None
       \/ security[1].capabilities[1].drop = None
    THEN << >>
    ELSE security[1].capabilities[1].drop[1]

DeclaredAdd(policy) ==
    LET security == DeclaredSecurity(policy) IN
    IF security = None \/ security[1].capabilities = None
       \/ security[1].capabilities[1].add = None
    THEN << >>
    ELSE security[1].capabilities[1].add[1]

HasFsScheme(sp) == Len(sp.uri) >= 5 /\ SubSeq(sp.uri, 1, 5) = "fs://"

\* the storage permissions of the allow-list that carry the fs:// scheme
FsPermissions(policy) == SelectSeq(DeclaredAllow(policy), HasFsScheme)

HasWrite(sp) == \E i \in 1..Len(sp.access) : sp.access[i] = "Write"

\* the URI without its five-character scheme prefix
PathOf(sp) == SubSeq(sp.uri, 6, Len(sp.uri))

\* flag, values[1], flag, values[2], ...
Pairs(flag, values) ==
    [ i \in 1..(2 * Len(values)) |->
        IF i % 2 = 1 THEN flag ELSE values[i \div 2] ]

SecurityFlags == { "--security-opt", "--cap-drop", "--cap-add" }

\* C6: get_all_docker_args is the mount pairs, in allow-list order, followed
\* by the security pairs: the no-new-privileges pair if any, the --cap-drop
\* pairs in drop-list order, the --cap-add pairs in add-list order; every -v
\* pair precedes every security pair and every flag is followed by its value.
C6_MountsThenSecurity ==
    called = "get_all_docker_args" =>
        LET fs == FsPermissions(policy_config)
            drop == DeclaredDrop(policy_config)
            add == DeclaredAdd(policy_config)
            mountValues == [ k \in 1..Len(fs) |->
                               PathOf(fs[k]) \o ":" \o PathOf(fs[k]) \o ":"
                               \o (IF HasWrite(fs[k]) THEN "rw" ELSE "ro") ]
            hardening == IF DeclaredPrivileged(policy_config) = Some(FALSE)
                         THEN << "--security-opt", "no-new-privileges" >> ELSE << >>
            dropNames == [ k \in 1..Len(drop) |-> DebugFmt(drop[k]) ]
            addNames == [ k \in 1..Len(add) |-> DebugFmt(add[k]) ]
            flagAt == { i \in 1..Len(ret) : i % 2 = 1 }
        IN  /\ ret = Pairs("-v", mountValues) \o hardening
                     \o Pairs("--cap-drop", dropNames) \o Pairs("--cap-add", addNames)
            /\ Len(ret) % 2 = 0
            /\ \A i \in flagAt : ret[i] \in { "-v" } \cup SecurityFlags
            /\ \A i, j \in flagAt :
                  (ret[i] = "-v" /\ ret[j] \in SecurityFlags) => i < j
            /\ \A i, j \in flagAt :
                  (ret[i] = "--cap-drop" /\ ret[j] = "--cap-add") => i < j
            /\ \A i, j \in flagAt :
                  (ret[i] = "--security-opt" /\ ret[j] \in { "--cap-drop", "--cap-add" }) => i < j

C6_Witness ==
    /\ called = "get_all_docker_args"
    /\ ret = << "-v", "/tmp/mcp-filesystem:/tmp/mcp-filesystem:rw", "-v", "/usr/local/lib:/usr/local/lib:ro",
                "--security-opt", "no-new-privileges",
                "--cap-drop", "NetAdmin", "--cap-drop", "All",
                "--cap-add", "All", "--cap-add", "NetAdmin" >>

\* a policy that is absent, or whose storage allow-list, privileged field and
\* capability lists are each absent or empty
IsEmptyPolicy(policy) ==
    /\ DeclaredAllow(policy) = << >>
    /\ DeclaredPrivileged(policy) = None
    /\ DeclaredDrop(policy) = << >>
    /\ DeclaredAdd(policy) = << >>

\* C7: for an absent policy and for a document whose sections are all absent
\* or empty, get_all_docker_args, map_file_mounts and
\* map_docker_security_args each return the empty list.
C7_EmptyPolicyNoArgs ==
    (called \in { "get_all_docker_args", "map_file_mounts", "map_docker_security_args" }
        /\ IsEmptyPolicy(policy_config))
    => ret = << >>

\* a document that is present, with present but empty sections
C7_Witness ==
    /\ called = "get_all_docker_args"
    /\ policy_config = Some([ permissions |->
          [ storage |-> Some([ allow |-> Some(<< >>) ]),
            runtime |-> Some([ docker |-> Some([ security |-> Some(
                [ privileged |-> None,
                  capabilities |-> Some([ drop |-> Some(<< >>), add |-> None ]) ]) ]) ]) ] ])
    /\ ret = << >>

\* C8: the mode of every mount is rw if and only if the permission's access
\* list contains Write, and ro otherwise (an empty list and a read-only list
\* included).
C8_MountMode ==
    called = "map_file_mounts" =>
        LET fs == FsPermissions(policy_config) IN
        /\ Len(ret) = 2 * Len(fs)
        /\ \A k \in 1..Len(fs) :
              LET value == ret[2 * k]
                  mode == SubSeq(value, Len(value) - 2, Len(value))
              IN  /\ mode \in { ":rw", ":ro" }
                  /\ (mode = ":rw") <=> HasWrite(fs[k])

C8_Witness ==
    /\ called = "map_file_mounts"
    /\ DeclaredAllow(policy_config) =
          << [ uri |-> "fs:///tmp/mcp-filesystem", access |-> << >> ],
             [ uri |-> "fs:///tmp/mcp-filesystem", access |-> << "Read", "Write" >> ] >>
    /\ ret = << "-v", "/tmp/mcp-filesystem:/tmp/mcp-filesystem:ro", "-v", "/tmp/mcp-filesystem:/tmp/mcp-filesystem:rw" >>

\* C9: map_file_mounts emits one -v pair for exactly the allow-list entries
\* whose URI starts with fs://, in order, and nothing for the others; the value
\* is <path>:<path>:<mode> with <path> the URI without its first five
\* characters; fs:///usr/local/lib without write access gives
\* -v /usr/local/lib:/usr/local/lib:ro.
C9_FsSchemeMounts ==
    called = "map_file_mounts" =>
        LET fs == FsPermissions(policy_config) IN
        /\ Len(ret) = 2 * Len(fs)
        /\ \A k \in 1..Len(fs) :
              LET path == PathOf(fs[k]) IN
              /\ ret[2 * k - 1] = "-v"
              /\ ret[2 * k] \in { path \o ":" \o path \o ":ro",
                                  path \o ":" \o path \o ":rw" }
        /\ (DeclaredAllow(policy_config) =
               << [ uri |-> "fs:///usr/local/lib", access |-> << "Read" >> ] >>)
           => ret = << "-v", "/usr/local/lib:/usr/local/lib:ro" >>

\* a skipped URI before a mounted one
C9_Witness ==
    /\ called = "map_file_mounts"
    /\ DeclaredAllow(policy_config) =
          << [ uri |-> "file:///etc", access |-> << "Read", "Write" >> ],
             [ uri |-> "fs:///usr/local/lib", access |-> << "Read" >> ] >>
    /\ ret = << "-v", "/usr/local/lib:/usr/local/lib:ro" >>

\* C10: map_docker_security_args emits --security-opt no-new-privileges if and
\* only if privileged is present and false; with privileged absent or true no
\* --security-opt token is emitted; the pair is emitted at most once.
C10_NoNewPrivileges ==
    called = "map_docker_security_args" =>
        LET at == { i \in 1..Len(ret) : ret[i] = "--security-opt" }
            explicitFalse == DeclaredPrivileged(policy_config) = Some(FALSE)
        IN  /\ Cardinality(at) = IF explicitFalse THEN 1 ELSE 0
            /\ \A i \in at : i < Len(ret) /\ ret[i + 1] = "no-new-privileges"
            /\ \A i \in 1..Len(ret) : ret[i] = "no-new-privileges" => (i - 1) \in at

C10_Witness ==
    /\ called = "map_docker_security_args"
    /\ DeclaredPrivileged(policy_config) = Some(FALSE)
    /\ DeclaredDrop(policy_config) = << "ALL" >>
    /\ ret = << "--security-opt", "no-new-privileges", "--cap-drop", "All" >>

-----------------------------------------------------------------------------
(* The capability names on the engine command line *)

\* the tokens of an argument list that directly follow an occurrence of flag
RECURSIVE ValuesAfter(_, _)
ValuesAfter(flag, tokens) ==
    IF Len(tokens) < 2 THEN << >>
    ELSE IF Head(tokens) = flag
         THEN << tokens[2] >> \o ValuesAfter(flag, Tail(Tail(tokens)))
         ELSE ValuesAfter(flag, Tail(tokens))

\* C11: map_docker_security_args emits, for each capability of the drop-list
\* and of the add-list, --cap-drop / --cap-add followed by the capability's
\* name as the container engine expects it (ALL, NET_ADMIN), in list order; a
\* drop-list of [ALL] yields --cap-drop ALL.
C11_EngineCapabilityNames ==
    called = "map_docker_security_args" =>
        /\ ValuesAfter("--cap-drop", ret) = DeclaredDrop(policy_config)
        /\ ValuesAfter("--cap-add", ret) = DeclaredAdd(policy_config)

-----------------------------------------------------------------------------
(* The legacy crate (src/src/lib.rs): the security policy's monitor section *)

\* longest list of rule-sets drawn for the monitor section
MaxRuleSets == 2

\* FalcoRule values: every optional field set, none set, some set
FullRule ==
    [ name |-> "test-rule", description |-> "Test rule",
      condition |-> "open_write", output |-> "Write to /etc/passwd",
      priority |-> "WARNING", action |-> "terminate" ]
MinimalRule ==
    [ name |-> "shell-rule", description |-> "", condition |-> "spawned_process",
      output |-> "", priority |-> "", action |-> "" ]
PartialRule ==
    [ name |-> "net-rule", description |-> "Outbound traffic",
      condition |-> "outbound", output |-> "", priority |-> "NOTICE",
      action |-> "" ]

\* FalcoRuleSet.rules and FalcoRuleSet.rule_content
FalcoRuleLists == { << >>, << FullRule >>, << MinimalRule, PartialRule >> }
InlineText == "- macro: inline\n  condition: evt.type = execve"

FalcoRuleSet ==
    [ name : { "test-ruleset" }, description : { "Test ruleset" },
      enabled : BOOLEAN, rules : FalcoRuleLists,
      rule_content : { None, Some(InlineText) } ]

FalcoSpec == [ enabled : BOOLEAN, rules : SeqsUpTo(FalcoRuleSet, MaxRuleSets) ]

\* RuntimeSpec, lines 110-120: the declared timeout and restart limit; the
\* Default (empty, 0) and the values of the repository's sample policy
RuntimeSpec ==
    { [ timeout |-> "", max_restart_attempts |-> 0 ],
      [ timeout |-> "300s", max_restart_attempts |-> 3 ] }

\* SecurityPolicy, with the section of PolicySpec the executor reads (falco),
\* the runtime section, and the path and network lists of the filesystem and
\* network sections (lines 88-108), here at their Default
SecurityPolicy ==
    [ spec : [ falco : FalcoSpec, runtime : RuntimeSpec,
               filesystem : { [ allowed_paths |-> << >>, blocked_paths |-> << >> ] },
               network : { [ allowed_domains |-> << >>, blocked_ports |-> << >> ] } ] ]

\* SecurityPolicy::default(): every section at its Default
DefaultSecurityPolicy ==
    [ spec |-> [ falco |-> [ enabled |-> FALSE, rules |-> << >> ],
                 runtime |-> [ timeout |-> "", max_restart_attempts |-> 0 ],
                 filesystem |-> [ allowed_paths |-> << >>, blocked_paths |-> << >> ],
                 network |-> [ allowed_domains |-> << >>, blocked_ports |-> << >> ] ] ]

\* a variant of RenderRule that leaves the action line out
RenderRule_without_action(rule) ==
    "- rule: " \o rule.name \o "\n"
    \o (IF rule.description # "" THEN "  desc: " \o rule.description \o "\n" ELSE "")
    \o "  condition: " \o rule.condition \o "\n"
    \o (IF rule.output # "" THEN "  output: " \o rule.output \o "\n" ELSE "")
    \o (IF rule.priority # "" THEN "  priority: " \o rule.priority \o "\n" ELSE "")
    \o "\n"

\* generate_falco_rule_file, lines 228-248: one structured rule
RenderRule(rule) ==
    "- rule: " \o rule.name \o "\n"
    \o (IF rule.description # "" THEN "  desc: " \o rule.description \o "\n" ELSE "")
    \o "  condition: " \o rule.condition \o "\n"
    \o (IF rule.output # "" THEN "  output: " \o rule.output \o "\n" ELSE "")
    \o (IF rule.priority # "" THEN "  priority: " \o rule.priority \o "\n" ELSE "")
    \o (IF rule.action # "" THEN "  action: " \o rule.action \o "\n" ELSE "")
    \o "\n"

\* lines 228-248: the loop over rule_set.rules
RECURSIVE RenderRules(_)
RenderRules(rules) ==
    IF rules = << >> THEN ""
    ELSE RenderRule(Head(rules)) \o RenderRules(Tail(rules))

\* a variant of RenderRuleSet that renders the structured rules of a rule-set
\* after its inline text
RenderRuleSet_inline_then_rules(rule_set) ==
    IF ~rule_set.enabled THEN ""
    ELSE IF IsSome(rule_set.rule_content)
         THEN Unwrap(rule_set.rule_content) \o "\n" \o RenderRules(rule_set.rules)
         ELSE RenderRules(rule_set.rules)

\* lines 215-249: the body of the loop over the rule-sets
RenderRuleSet(rule_set) ==
    IF ~rule_set.enabled THEN ""
    ELSE IF IsSome(rule_set.rule_content)
         THEN Unwrap(rule_set.rule_content) \o "\n"
         ELSE RenderRules(rule_set.rules)

RECURSIVE RenderRuleSets(_)
RenderRuleSets(rule_sets) ==
    IF rule_sets = << >> THEN ""
    ELSE RenderRuleSet(Head(rule_sets)) \o RenderRuleSets(Tail(rule_sets))

\* line 212 and the loop: the text handed to fs::write
FalcoRuleText(self) ==
    "# Falco rules generated by snpx\n" \o RenderRuleSets(self.spec.falco.rules)

\* std::env::temp_dir()
TempDir == "/tmp"

\* lines 208-210
FalcoRuleFilePath(pid) == TempDir \o "/snpx-falco-rules-" \o ToDec(pid) \o ".yaml"

\* Result<Option<PathBuf>>
FalcoOk(path) == [ ok |-> TRUE, path |-> path ]
FalcoErr == [ ok |-> FALSE, path |-> None ]

\* generate_falco_rule_file: what it returns and the files it writes, for the
\* process id pid and the outcome write_ok of fs::write
generate_falco_rule_file(self, pid, write_ok) ==
    IF ~self.spec.falco.enabled \/ self.spec.falco.rules = << >>
    THEN [ result |-> FalcoOk(None), writes |-> << >> ]
    ELSE IF write_ok
         THEN [ result |-> FalcoOk(Some(FalcoRuleFilePath(pid))),
                writes |-> << [ path |-> FalcoRuleFilePath(pid),
                                content |-> FalcoRuleText(self) ] >> ]
         ELSE [ result |-> FalcoErr, writes |-> << >> ]

-----------------------------------------------------------------------------
(* The legacy crate (src/src/lib.rs): runners and the executor's invocation *)

\* the runners of the legacy crate: NpxRunner (lib.rs 471-606) and the Python
\* runner SuvRunner that src/bin/suvx.rs imports
LegacyRunners == { "NpxRunner", "SuvRunner" }

\* the runner descriptor of the legacy Python runner: command name, default
\* flags, TTY requirement per transport, fallback eligibility
SuvRunner ==
    [ command |-> "uv",
      default_flags |-> << >>,
      requires_tty |-> [ t \in Transports |-> t \in { "Http", "SSE" } ],
      supports_fallback |-> TRUE ]

\* Runner::command
legacy_command(r) == IF r = "NpxRunner" THEN "npx" ELSE SuvRunner.command

\* Runner::default_flags
legacy_default_flags(r) == IF r = "NpxRunner" THEN << "-y" >> ELSE SuvRunner.default_flags

\* a variant of legacy_requires_tty that asks for a terminal on every transport
legacy_requires_tty_always(r, t) == TRUE

\* Runner::requires_tty; NpxRunner: !matches!(transport, Transport::Stdio)
legacy_requires_tty(r, t) ==
    IF r = "NpxRunner" THEN t # "Stdio" ELSE SuvRunner.requires_tty[t]

\* Runner::supports_fallback: the trait's default, which NpxRunner keeps
legacy_supports_fallback(r) == IF r = "NpxRunner" THEN TRUE ELSE SuvRunner.supports_fallback

\* Runner::build_command_args; additional_docker_args is the trait's default (empty)
legacy_build_command_args(r, fl, ar) == << legacy_command(r) >> \o fl \o ar

\* the legacy executor as the variables hold it
LegacyExecutor ==
    [ docker_image |-> docker_image,
      container_name |-> container_name,
      security_policy |-> security_policy,
      falco_enabled |-> falco_enabled ]

\* create_docker_args, lines 367-386: the monitor rule file it asks for, if any
FalcoIntegration(self, pid, write_ok) ==
    IF self.falco_enabled /\ IsSome(self.security_policy)
    THEN generate_falco_rule_file(Unwrap(self.security_policy), pid, write_ok)
    ELSE [ result |-> FalcoOk(None), writes |-> << >> ]

\* a variant of FalcoLabels that emits the namespace label before the rule-file label
FalcoLabels_namespace_first(rule_file) ==
    IF rule_file.ok /\ IsSome(rule_file.path)
    THEN << "--label", "io.kubernetes.pod.namespace=falco-monitored",
            "--label", "falco.rules.file=" \o Unwrap(rule_file.path) >>
    ELSE << >>

\* lines 369-376: the labels pushed if let Ok(Some(rule_file_path))
FalcoLabels(rule_file) ==
    IF rule_file.ok /\ IsSome(rule_file.path)
    THEN << "--label", "falco.rules.file=" \o Unwrap(rule_file.path),
            "--label", "io.kubernetes.pod.namespace=falco-monitored" >>
    ELSE << >>

\* a variant of the legacy create_docker_args that hands a declared timeout
\* to the engine
legacy_create_docker_args_with_timeout(self, r, cmd_args, t, pid, write_ok) ==
    << "run", "--rm", "-i", "--name", self.container_name >>
    \o (IF legacy_requires_tty(r, t) THEN << "-t" >> ELSE << >>)
    \o FalcoLabels(FalcoIntegration(self, pid, write_ok).result)
    \o (IF IsSome(self.security_policy)
           /\ Unwrap(self.security_policy).spec.runtime.timeout # ""
        THEN << "--stop-timeout", Unwrap(self.security_policy).spec.runtime.timeout >>
        ELSE << >>)
    \o << self.docker_image >>
    \o cmd_args

\* ContainerExecutor::create_docker_args of the legacy crate; always Ok(docker_args)
legacy_create_docker_args(self, r, cmd_args, t, pid, write_ok) ==
    << "run", "--rm", "-i", "--name", self.container_name >>
    \o (IF legacy_requires_tty(r, t) THEN << "-t" >> ELSE << >>)
    \o FalcoLabels(FalcoIntegration(self, pid, write_ok).result)
    \o << self.docker_image >>
    \o cmd_args

\* the flag lists the legacy binaries hand to the executor
LegacyFlagLists(r) ==
    IF r = "NpxRunner" THEN { << "-y" >>, << "--no-install", "-q" >> } ELSE { << >> }

\* ContainerExecutor::new, line 309
LegacyContainerName(pid, timestamp) == "snpx-" \o ToDec(pid) \o "-" \o ToDec(timestamp)

-----------------------------------------------------------------------------
(* generate_falco_rule_file applied to policies drawn from a bounded set *)

InitFalco ==
    /\ pc = "falco"
    /\ security_policy \in { Some(p) : p \in SecurityPolicy }
    /\ process_id \in Pids
    /\ runner = "NpxRunner"
    /\ docker_image = "node:20"
    /\ container_name = ""
    /\ falco_enabled = Unwrap(security_policy).spec.falco.enabled
    /\ flags = << >> /\ args = << >>
    /\ transport = "Stdio"
    /\ policy_config = None
    /\ policy_files = << >> /\ written = << >> /\ sessions = << >> /\ host_cmds = << >>
    /\ NoRun
    /\ NoCall

\* generate_falco_rule_file on the policy; fs::write succeeds or fails
CallGenerateFalcoRuleFile ==
    /\ pc = "falco"
    /\ \E write_ok \in BOOLEAN :
         LET g == generate_falco_rule_file(Unwrap(security_policy), process_id, write_ok)
         IN  /\ called' = "generate_falco_rule_file"
             /\ ret' = g.result
             /\ written' = written \o g.writes
    /\ pc' = "returned"
    /\ UNCHANGED << runner, policy_arg, policy_config, docker_image, container_name,
                    flags, args, transport, child, child_status, sigint,
                    engine_cmds, stop_outcome, result, exit_code, process_id,
                    security_policy, falco_enabled, policy_files, sessions, host_cmds >>

NextFalco == CallGenerateFalcoRuleFile

SpecFalco == InitFalco /\ [][NextFalco]_vars

-----------------------------------------------------------------------------
(* create_docker_args of both crates, applied to executors drawn from bounded
   sets *)

InitLegacyArgs ==
    /\ pc = "legacy_executor"
    /\ runner \in LegacyRunners
    /\ process_id \in Pids
    /\ docker_image = "node:20"
    /\ container_name \in { LegacyContainerName(process_id, timestamp) : timestamp \in Clocks }
    /\ security_policy \in OptionOf(SecurityPolicy)
    /\ falco_enabled \in BOOLEAN
    /\ flags = legacy_default_flags(runner)
    /\ args \in { << "cowsay" >>, << "cowsay", "-t" >> }
    /\ transport \in Transports
    /\ policy_config = None
    /\ policy_files = << >> /\ written = << >> /\ sessions = << >> /\ host_cmds = << >>
    /\ NoRun
    /\ NoCall

\* the legacy create_docker_args on the command line build_command_args makes,
\* as run_containerized calls it (lines 405-406), for any transport
CallLegacyCreateDockerArgs ==
    /\ pc = "legacy_executor"
    /\ \E write_ok \in BOOLEAN :
         /\ called' = "legacy_create_docker_args"
         /\ ret' = legacy_create_docker_args(LegacyExecutor, runner,
                       legacy_build_command_args(runner, flags, args),
                       transport, process_id, write_ok)
         /\ written' = written \o FalcoIntegration(LegacyExecutor, process_id, write_ok).writes
    /\ pc' = "returned"
    /\ UNCHANGED << runner, policy_arg, policy_config, docker_image, container_name,
                    flags, args, transport, child, child_status, sigint,
                    engine_cmds, stop_outcome, result, exit_code, process_id,
                    security_policy, falco_enabled, policy_files, sessions, host_cmds >>

InitExecutors == InitArgs \/ InitLegacyArgs

NextExecutors == CallCreateDockerArgs \/ CallLegacyCreateDockerArgs

SpecExecutors == InitExecutors /\ [][NextExecutors]_vars

-----------------------------------------------------------------------------
(* The terminal flag and the monitoring labels *)

\* the number of tokens of an argument list equal to token
CountOf(tokens, token) == Cardinality({ i \in 1..Len(tokens) : tokens[i] = token })

\* the part of an invocation before the wrapped command line: the engine's
\* options and the image
EngineOptions(invocation) ==
    SubSeq(invocation, 1, Len(invocation) - (1 + Len(flags) + Len(args)))

\* requires_tty of the runner the invocation was built for, on the transport
\* handed to create_docker_args
TtyRequired ==
    IF called = "create_docker_args" THEN requires_tty(runner, transport)
    ELSE legacy_requires_tty(runner, transport)

\* requires_tty is false for Stdio and true for Http and SSE for every runner
\* of the shared library and of the legacy crate (the legacy Python runner by
\* its descriptor), so the two ways it is written (matches Http | SSE, and
\* does not match Stdio) agree on every transport
TtyPredicates ==
    \A t \in Transports :
        /\ \A r \in Runners : requires_tty(r, t) <=> t \in { "Http", "SSE" }
        /\ legacy_requires_tty("NpxRunner", t) <=> t \in { "Http", "SSE" }
        /\ legacy_requires_tty("SuvRunner", t) <=> t \in { "Http", "SSE" }
        /\ \A r1 \in Runners, r2 \in LegacyRunners :
             requires_tty(r1, t) <=> legacy_requires_tty(r2, t)

\* C12 as stated: every shipped runner's requires_tty is false for Stdio and
\* true for Http and SSE, the two ways it is written agree, and -t appears in
\* the invocation create_docker_args builds exactly when the predicate is
\* true for the transport handed to it
C12_TtyInInvocationIffRequired ==
    /\ TtyPredicates
    /\ called \in { "create_docker_args", "legacy_create_docker_args" } =>
         (CountOf(ret, "-t") > 0 <=> TtyRequired)

\* C12: every shipped runner's requires_tty is false for Stdio and true for
\* Http and SSE, and the two ways it is written agree; the invocation
\* create_docker_args builds carries -t among the engine's options, once and
\* right after the name, exactly when the predicate is true for the transport
\* handed to it; every other -t in it is a flag or a pass-through argument
\* copied after the image
C12_TtyOptionIffRequired ==
    /\ TtyPredicates
    /\ called \in { "create_docker_args", "legacy_create_docker_args" } =>
         /\ ret[6] = "-t" <=> TtyRequired
         /\ CountOf(EngineOptions(ret), "-t") = IF TtyRequired THEN 1 ELSE 0
         /\ CountOf(ret, "-t") = CountOf(EngineOptions(ret), "-t")
                                    + CountOf(flags, "-t") + CountOf(args, "-t")
         /\ EngineOptions(ret)[Len(EngineOptions(ret))] = docker_image

\* the engine's -t and a pass-through -t in one invocation
C12_Witness ==
    /\ called = "legacy_create_docker_args"
    /\ runner = "NpxRunner"
    /\ transport = "SSE"
    /\ args = << "cowsay", "-t" >>
    /\ ret[6] = "-t"
    /\ CountOf(ret, "-t") = 2

\* C13: when the legacy executor's monitoring is active and a rule file was
\* produced, the invocation carries exactly two --label pairs, the first
\* falco.rules.file=<path of the file written>, the second
\* io.kubernetes.pod.namespace=falco-monitored, right after the baseline
\* flags and the optional -t and right before the image; when monitoring is
\* not active or no rule file was produced it carries no --label token.
C13_MonitoringLabels ==
    called = "legacy_create_docker_args" =>
        LET base == IF ret[6] = "-t" THEN 6 ELSE 5
            active == falco_enabled /\ IsSome(security_policy) /\ written # << >>
        IN  IF active
            THEN /\ { i \in 1..Len(ret) : ret[i] = "--label" } = { base + 1, base + 3 }
                 /\ ret[base + 2] = "falco.rules.file=" \o written[1].path
                 /\ ret[base + 4] = "io.kubernetes.pod.namespace=falco-monitored"
                 /\ ret[base + 5] = docker_image
                 /\ SubSeq(ret, base + 6, Len(ret)) = legacy_build_command_args(runner, flags, args)
            ELSE /\ CountOf(ret, "--label") = 0
                 /\ ret[base + 1] = docker_image

C13_Witness ==
    /\ called = "legacy_create_docker_args"
    /\ transport = "Http"
    /\ written # << >>
    /\ ret[7] = "--label"
    /\ ret[9] = "--label"

-----------------------------------------------------------------------------
(* The monitor rule file *)

\* the monitor section of the policy generate_falco_rule_file was applied to
Monitor == Unwrap(security_policy).spec.falco

\* a rule-set that contributes rules: enabled, with inline text or structured rules
IsNonEmptyRuleSet(rule_set) ==
    rule_set.enabled /\ (IsSome(rule_set.rule_content) \/ rule_set.rules # << >>)

\* str::contains
IsSubstring(s, text) ==
    \E i \in 1..(Len(text) - Len(s) + 1) : SubSeq(text, i, i + Len(s) - 1) = s

\* C19: generate_falco_rule_file returns Ok(None) and writes nothing whenever
\* monitoring is disabled, and also whenever it is enabled but no rule-set is
\* non-empty (no rule-sets, only disabled ones, or only ones with neither
\* inline text nor structured rules); in these cases it never returns an error.
C19_NoFileWithoutRules ==
    ( /\ called = "generate_falco_rule_file"
      /\ \/ ~Monitor.enabled
         \/ \A i \in 1..Len(Monitor.rules) : ~IsNonEmptyRuleSet(Monitor.rules[i]) )
    => (ret = FalcoOk(None) /\ written = << >>)

\* the structured rule has its name, its condition and each of its non-empty
\* optional fields in the text
RuleInText(rule, text) ==
    /\ IsSubstring(rule.name, text)
    /\ IsSubstring(rule.condition, text)
    /\ \A field \in { rule.description, rule.output, rule.priority, rule.action } :
         field # "" => IsSubstring(field, text)

\* C20 as stated: the text of a produced file contains, for every structured
\* rule of every enabled rule-set, the rule's name and condition and each
\* non-empty description, output, priority and action.
C20_EveryStructuredRuleInText ==
    (called = "generate_falco_rule_file" /\ ret.ok /\ IsSome(ret.path)) =>
        \A i \in 1..Len(Monitor.rules) :
            Monitor.rules[i].enabled =>
                \A j \in 1..Len(Monitor.rules[i].rules) :
                    RuleInText(Monitor.rules[i].rules[j], written[1].content)

\* C20, amended: the text of a produced file, which is the one file written
\* at the returned path, contains the name, the condition and each non-empty
\* description, output, priority and action of every structured rule of every
\* enabled rule-set that carries no inline text; an enabled rule-set with
\* inline text contributes that text and none of its structured rules.
C20_StructuredRulesOfSetsWithoutInlineText ==
    (called = "generate_falco_rule_file" /\ ret.ok /\ IsSome(ret.path)) =>
        /\ Len(written) = 1
        /\ written[1].path = Unwrap(ret.path)
        /\ \A i \in 1..Len(Monitor.rules) :
             LET rule_set == Monitor.rules[i] IN
             (rule_set.enabled /\ rule_set.rule_content = None) =>
                 \A j \in 1..Len(rule_set.rules) :
                     RuleInText(rule_set.rules[j], written[1].content)

C20_Witness ==
    /\ called = "generate_falco_rule_file"
    /\ ret.ok /\ IsSome(ret.path)
    /\ Len(Monitor.rules) = 2
    /\ Monitor.rules[1].enabled /\ Monitor.rules[1].rule_content = None
    /\ Monitor.rules[1].rules = << FullRule >>
    /\ Monitor.rules[2].enabled /\ Monitor.rules[2].rule_content = None
    /\ Monitor.rules[2].rules = << MinimalRule, PartialRule >>
    /\ IsSubstring("  action: terminate\n", written[1].content)

-----------------------------------------------------------------------------
(* The legacy crate (src/src/lib.rs): locating and loading the policy file *)

\* a policy with monitoring on, as test_falco_integration builds it
MonitoredPolicy ==
    [ spec |-> [ falco |-> [ enabled |-> TRUE,
        rules |-> << [ name |-> "test-ruleset", description |-> "Test ruleset",
                       enabled |-> TRUE, rules |-> << FullRule >>,
                       rule_content |-> None ] >> ],
                 runtime |-> [ timeout |-> "", max_restart_attempts |-> 0 ],
                 filesystem |-> [ allowed_paths |-> << >>, blocked_paths |-> << >> ],
                 network |-> [ allowed_domains |-> << >>, blocked_ports |-> << >> ] ] ]

\* the same policy with a timeout and a restart limit declared, and with the
\* path and network lists of the policy of test_policy_to_rego_conversion
TimedPolicy ==
    [ MonitoredPolicy EXCEPT
          !.spec.runtime = [ timeout |-> "300s", max_restart_attempts |-> 3 ],
          !.spec.filesystem = [ allowed_paths |-> << "/usr/local/lib", "/tmp" >>,
                                blocked_paths |-> << "/proc/sys", "/dev/mem" >> ],
          !.spec.network = [ allowed_domains |-> << "registry.npmjs.org", "github.com" >>,
                             blocked_ports |-> << "22", "3306" >> ] ]

\* what a path may hold: no file, a file serde_yaml rejects, or a policy document
AbsentFile == [ exists |-> FALSE, parsed |-> None ]
MalformedFile == [ exists |-> TRUE, parsed |-> None ]
PolicyFile(p) == [ exists |-> TRUE, parsed |-> Some(p) ]
FileStates ==
    { AbsentFile, MalformedFile, PolicyFile(DefaultSecurityPolicy),
      PolicyFile(MonitoredPolicy), PolicyFile(TimedPolicy) }

\* dirs_next::home_dir() and dirs_next::config_dir(): None when unknown
HomeDirs == { None, Some("/home/user") }
ConfigDirs == { None, Some("/home/user/.config") }

\* find_and_load, lines 186-191: the locations vector
Locations(home, config) ==
    << Some("./snpx.yaml"),
       Some("./snpx.yml"),
       IF IsSome(home) THEN Some(Unwrap(home) \o "/.snpx.yaml") ELSE None,
       IF IsSome(config) THEN Some(Unwrap(config) \o "/snpx/config.yaml") ELSE None >>

\* the locations with what each holds; nothing is held where the directory is unknown
FileSystems ==
    { fs \in [ 1..4 -> [ location : UNION { { Locations(h, c)[i] : i \in 1..4 } :
                                             h \in HomeDirs, c \in ConfigDirs },
                         file : FileStates ] ] :
        /\ \E h \in HomeDirs, c \in ConfigDirs :
             \A i \in 1..4 : fs[i].location = Locations(h, c)[i]
        /\ \A i \in 1..4 : fs[i].location = None => fs[i].file = AbsentFile }

\* Result<SecurityPolicy>
PolicyOk(p) == [ ok |-> TRUE, policy |-> Some(p) ]
PolicyErr == [ ok |-> FALSE, policy |-> None ]

\* load_from_file: read_to_string(path)? then serde_yaml::from_str(..)?
load_from_file(file) ==
    IF ~file.exists \/ file.parsed = None THEN PolicyErr ELSE PolicyOk(Unwrap(file.parsed))

\* a variant of find_and_load_from that goes on to the next location when a
\* file fails to load
RECURSIVE find_and_load_from_skipping_malformed(_, _)
find_and_load_from_skipping_malformed(fs, examined) ==
    IF fs = << >>
    THEN [ result |-> PolicyOk(DefaultSecurityPolicy), examined |-> examined ]
    ELSE IF Head(fs).location = None
         THEN find_and_load_from_skipping_malformed(Tail(fs), examined)
         ELSE LET seen == Append(examined, Unwrap(Head(fs).location)) IN
              IF Head(fs).file.exists /\ Head(fs).file.parsed # None
              THEN [ result |-> load_from_file(Head(fs).file), examined |-> seen ]
              ELSE find_and_load_from_skipping_malformed(Tail(fs), seen)

\* find_and_load, lines 193-200: the loop over locations.into_iter().flatten();
\* examined lists the paths whose exists() was asked, in order
RECURSIVE find_and_load_from(_, _)
find_and_load_from(fs, examined) ==
    IF fs = << >>
    THEN [ result |-> PolicyOk(DefaultSecurityPolicy), examined |-> examined ]
    ELSE IF Head(fs).location = None
         THEN find_and_load_from(Tail(fs), examined)
         ELSE LET seen == Append(examined, Unwrap(Head(fs).location)) IN
              IF Head(fs).file.exists
              THEN [ result |-> load_from_file(Head(fs).file), examined |-> seen ]
              ELSE find_and_load_from(Tail(fs), seen)

\* SecurityPolicy::find_and_load
find_and_load(fs) == find_and_load_from(fs, << >>)

-----------------------------------------------------------------------------
(* find_and_load applied to file systems drawn from a bounded set *)

InitLoad ==
    /\ pc = "load"
    /\ policy_files \in FileSystems
    /\ process_id \in Pids
    /\ runner = "NpxRunner"
    /\ docker_image = "node:20"
    /\ container_name = ""
    /\ security_policy = None
    /\ falco_enabled = FALSE
    /\ flags = << >> /\ args = << >>
    /\ transport = "Stdio"
    /\ policy_config = None
    /\ written = << >> /\ sessions = << >> /\ host_cmds = << >>
    /\ NoRun
    /\ NoCall

CallFindAndLoad ==
    /\ pc = "load"
    /\ called' = "find_and_load"
    /\ ret' = find_and_load(policy_files)
    /\ pc' = "returned"
    /\ UNCHANGED << runner, policy_arg, policy_config, docker_image, container_name,
                    flags, args, transport, child, child_status, sigint,
                    engine_cmds, stop_outcome, result, exit_code >>
    /\ UNCHANGED legacy_vars

NextLoad == CallFindAndLoad

SpecLoad == InitLoad /\ [][NextLoad]_vars

\* the index in the search list of the first path that holds a file, 0 if none does
FirstExisting ==
    LET known == SelectSeq(policy_files, LAMBDA f : f.location # None)
        held == { i \in 1..Len(known) : known[i].file.exists }
    IN  IF held = { } THEN 0 ELSE CHOOSE i \in held : \A j \in held : i <= j

\* C17: find_and_load examines ./snpx.yaml, ./snpx.yml, <home>/.snpx.yaml and
\* <config dir>/snpx/config.yaml in that order, skipping a candidate whose
\* base directory is unknown; it loads the first one that exists and consults
\* none after it, whether that file parses or not; if none exists it returns
\* the default document as a success.
C17_SearchOrder ==
    called = "find_and_load" =>
        LET known == SelectSeq(policy_files, LAMBDA f : f.location # None)
            paths == [ i \in 1..Len(known) |-> Unwrap(known[i].location) ]
        IN  /\ SubSeq(paths, 1, 2) = << "./snpx.yaml", "./snpx.yml" >>
            /\ IF FirstExisting = 0
               THEN /\ ret.examined = paths
                    /\ ret.result = PolicyOk(DefaultSecurityPolicy)
               ELSE /\ ret.examined = SubSeq(paths, 1, FirstExisting)
                    /\ ret.result = IF known[FirstExisting].file.parsed = None
                                    THEN PolicyErr
                                    ELSE PolicyOk(Unwrap(known[FirstExisting].file.parsed))

C17_Witness ==
    /\ called = "find_and_load"
    /\ policy_files[1].file = AbsentFile
    /\ policy_files[2].file = AbsentFile
    /\ policy_files[3].location = None
    /\ policy_files[4].file = PolicyFile(MonitoredPolicy)
    /\ ret.result = PolicyOk(MonitoredPolicy)
    /\ ret.examined = << "./snpx.yaml", "./snpx.yml", "/home/user/.config/snpx/config.yaml" >>

-----------------------------------------------------------------------------
(* A run of a binary of the legacy crate (src/main.rs 136-159,
   src/bin/suvx.rs 46-93) *)

\* Runner::detect_transport: Stdio for every package
legacy_detect_transport(r, package) == "Stdio"

\* what the binary hands to the fallback as arguments: snpx the package
\* arguments, suvx (src/bin/suvx.rs 75-77) the token x followed by them
FallbackArgs(r, package_args) ==
    IF r = "SuvRunner" THEN << "x" >> \o package_args ELSE package_args

\* ContainerExecutor::run_fallback, lines 438-448: the host command it builds,
\* None when the runner does not support the fallback
run_fallback(self, r, fl, ar) ==
    IF ~legacy_supports_fallback(r) THEN None
    ELSE Some([ program |-> legacy_command(r), args |-> fl \o ar ])

\* the legacy binaries after Args::parse(): only snpx (src/main.rs 52-53) has
\* the --policy option, suvx (src/bin/suvx.rs 12-30) has none
InitLegacy ==
    /\ pc = "legacy_main"
    /\ runner \in LegacyRunners
    /\ policy_arg \in (IF runner = "NpxRunner" THEN OptionOf(ParseResults) ELSE { None })
    /\ process_id = 4242
    /\ policy_files \in FileSystems
    /\ docker_image = "node:20"
    /\ container_name = ""
    /\ security_policy = None
    /\ falco_enabled = FALSE
    /\ flags \in LegacyFlagLists(runner)
    /\ args \in ArgLists
    /\ transport = "Stdio"
    /\ policy_config = None
    /\ written = << >> /\ sessions = << >> /\ host_cmds = << >>
    /\ child = "none" /\ child_status = None /\ sigint = FALSE
    /\ engine_cmds = << >> /\ stop_outcome = "none"
    /\ result = NoResult /\ exit_code = None
    /\ NoCall

\* main: no package argument
LegacyNoPackage ==
    /\ pc = "legacy_main"
    /\ args = << >>
    /\ Exit(1)
    /\ UNCHANGED << runner, policy_arg, policy_config, docker_image, container_name,
                    flags, args, transport, child, child_status, sigint,
                    engine_cmds, stop_outcome, result, called, ret >>
    /\ UNCHANGED legacy_vars

\* src/main.rs 90-97: PolicyConfig::from_file for --policy, PolicyConfig::new
\* without; a parse error leaves main through `?`, which ends the process
\* with code 1. src/bin/suvx.rs has no such step.
LegacyLoadPolicy ==
    /\ pc = "legacy_main"
    /\ runner = "NpxRunner"
    /\ args # << >>
    /\ IF IsSome(policy_arg) /\ ~Unwrap(policy_arg).ok
       THEN /\ Exit(1)
            /\ UNCHANGED policy_config
       ELSE /\ policy_config' = IF IsSome(policy_arg)
                                THEN Some(Unwrap(policy_arg).doc) ELSE None
            /\ pc' = "legacy_construct"
            /\ UNCHANGED exit_code
    /\ UNCHANGED << runner, policy_arg, docker_image, container_name,
                    flags, args, transport, child, child_status, sigint,
                    engine_cmds, stop_outcome, result, called, ret >>
    /\ UNCHANGED legacy_vars

\* ContainerExecutor::new, lib.rs 304-324: the name from the process id and
\* the clock, find_and_load().ok() as the policy, and the monitor flag the
\* policy declares
legacy_new(fs, pid, timestamp) ==
    LET loaded == find_and_load(fs).result
    IN  [ container_name |-> LegacyContainerName(pid, timestamp),
          security_policy |-> loaded.policy,
          falco_enabled |-> (loaded.ok /\ Unwrap(loaded.policy).spec.falco.enabled) ]

\* the construction of the session: SnpxRunner::with_policy (src/main.rs 99)
\* and SuvRunner::new (src/bin/suvx.rs 61). Neither constructor is in lib.rs;
\* the session is the one the specification describes: a unique name, the
\* bound policy document and the derived monitor flag, the policy taken from
\* the search list when no explicit path was given. Without an explicit path
\* the session is made as the crate's constructor ContainerExecutor::new
\* makes it; with one, the document main loaded is the bound policy and the
\* search list is not consulted.
LegacyNew ==
    /\ \/ pc = "legacy_construct"
       \/ pc = "legacy_main" /\ runner = "SuvRunner" /\ args # << >>
    /\ \E timestamp \in Clocks :
         LET made == legacy_new(policy_files, process_id, timestamp)
             explicit == IsSome(policy_arg)
         IN  /\ container_name' = made.container_name
             /\ security_policy' = IF explicit THEN None ELSE made.security_policy
             /\ falco_enabled' = (~explicit /\ made.falco_enabled)
             /\ sessions' = Append(sessions, made.container_name)
    /\ pc' = "legacy_check"
    /\ UNCHANGED << runner, policy_arg, policy_config, docker_image,
                    flags, args, transport, child, child_status, sigint,
                    engine_cmds, stop_outcome, result, exit_code, called, ret,
                    process_id, policy_files, written, host_cmds >>

\* check_docker_available()? in main: which::which fails (Ok(false)), or
\* docker --version runs and succeeds, fails, or cannot be executed (Err)
LegacyCheckDockerAvailable ==
    /\ pc = "legacy_check"
    /\ \E answer \in { "notfound", "true", "false", "err" } :
          /\ engine_cmds' = IF answer = "notfound" THEN engine_cmds
                            ELSE Append(engine_cmds, VersionInvocation)
          /\ CASE answer = "true" -> pc' = "legacy_run" /\ UNCHANGED exit_code
               [] answer = "err" -> Exit(1)
               [] OTHER -> pc' = "legacy_fallback" /\ UNCHANGED exit_code
    /\ UNCHANGED << runner, policy_arg, policy_config, docker_image, container_name,
                    flags, args, transport, child, child_status, sigint,
                    stop_outcome, result, called, ret >>
    /\ UNCHANGED legacy_vars

\* ContainerExecutor::run_containerized, lines 402-415: builds the invocation
\* for the detected transport and spawns the engine
LegacyRunContainerized ==
    /\ pc = "legacy_run"
    /\ \E write_ok \in BOOLEAN, spawned \in BOOLEAN :
          LET t == legacy_detect_transport(runner, IF args = << >> THEN "" ELSE Head(args))
              cmd_args == legacy_build_command_args(runner, flags, args)
          IN  /\ engine_cmds' = Append(engine_cmds,
                     legacy_create_docker_args(LegacyExecutor, runner, cmd_args, t,
                                               process_id, write_ok))
              /\ written' = written \o FalcoIntegration(LegacyExecutor, process_id, write_ok).writes
              /\ IF spawned
                 THEN /\ child' = "running"
                      /\ pc' = "waiting"
                      /\ UNCHANGED result
                 ELSE /\ result' = Err("Failed to spawn docker command")
                      /\ pc' = "result"
                      /\ UNCHANGED child
    /\ UNCHANGED << runner, policy_arg, policy_config, docker_image, container_name,
                    flags, args, transport, child_status, sigint,
                    stop_outcome, exit_code, called, ret,
                    process_id, security_policy, falco_enabled, policy_files,
                    sessions, host_cmds >>

\* the else branch of main with ContainerExecutor::run_fallback, lines 432-452:
\* the host command runs to its end (cmd.status()) or cannot be executed
LegacyRunFallback ==
    /\ pc = "legacy_fallback"
    /\ LET host == run_fallback(LegacyExecutor, runner, flags, FallbackArgs(runner, args))
       IN  IF host = None
           THEN /\ result' = Err("Fallback not supported for this runner")
                /\ UNCHANGED host_cmds
           ELSE /\ host_cmds' = Append(host_cmds, Unwrap(host))
                /\ \E status \in { "err", "signal", "code" } :
                     \E code \in ExitCodes :
                       result' = CASE status = "err" -> Err("Failed to execute command")
                                   [] status = "signal" -> OkStatus(None)
                                   [] OTHER -> OkStatus(Some(code))
    /\ pc' = "result"
    /\ UNCHANGED << runner, policy_arg, policy_config, docker_image, container_name,
                    flags, args, transport, child, child_status, sigint,
                    engine_cmds, stop_outcome, exit_code, called, ret,
                    process_id, security_policy, falco_enabled, policy_files,
                    written, sessions >>

NextLegacy ==
    \/ LegacyNoPackage
    \/ LegacyLoadPolicy
    \/ LegacyNew
    \/ LegacyCheckDockerAvailable
    \/ LegacyRunContainerized
    \/ LegacyRunFallback
    \/ ChildExits
    \/ ChildWaitFails
    \/ Interrupt
    \/ SelectChild
    \/ SelectCtrlC
    \/ StopCompletes
    \/ MainMatch

SpecLegacy == InitLegacy /\ [][NextLegacy]_vars

-----------------------------------------------------------------------------
(* The fallback and the fatal policy errors of the legacy binaries *)

\* the tokens that only the policy or the monitor section put on a command line
PolicyTokens == { "-v", "--security-opt", "--cap-drop", "--cap-add", "--label" }

\* C14: when the engine is unavailable and the runner supports the fallback,
\* the wrapped command is run on the host, once, with arguments exactly the
\* flags followed by the pass-through arguments, with no engine run
\* invocation and no policy-derived token; when the runner does not support
\* it no host process is spawned and the invocation fails.
C14_FallbackRunsWrappedCommand ==
    /\ host_cmds # << >> =>
         /\ host_cmds = << [ program |-> legacy_command(runner), args |-> flags \o args ] >>
         /\ CmdsOf(engine_cmds, "run") = { }
         /\ \A i \in 1..Len(host_cmds[1].args) : host_cmds[1].args[i] \notin PolicyTokens
    /\ (result = Err("Fallback not supported for this runner")) => host_cmds = << >>

\* the first file of the search list that exists does not load
MalformedPolicyFound ==
    LET known == SelectSeq(policy_files, LAMBDA f : f.location # None)
    IN  FirstExisting # 0 /\ known[FirstExisting].file.parsed = None

\* C16: a policy file that exists but is malformed is fatal, whether it was
\* named with --policy or found through the search list: once the policy has
\* been loaded the program has ended with code 1, having run no engine and no
\* host command, and it never goes on with a default policy or with none.
C16_MalformedPolicyFatal ==
    /\ (IsSome(policy_arg) /\ ~Unwrap(policy_arg).ok /\ pc \notin { "main", "legacy_main" }) =>
           (pc = "exited" /\ exit_code = Some(1) /\ engine_cmds = << >> /\ host_cmds = << >>)
    /\ (/\ policy_files # << >> /\ MalformedPolicyFound
        /\ policy_arg = None
        /\ pc \notin { "legacy_main", "legacy_construct" }) =>
           (pc = "exited" /\ exit_code = Some(1) /\ engine_cmds = << >> /\ host_cmds = << >>)

-----------------------------------------------------------------------------
(* Executors constructed one after another in one process *)

\* the most executors constructed in one process
MaxSessions == 3

InitSessions ==
    /\ pc = "sessions"
    /\ process_id \in Pids
    /\ docker_image \in { "node:24-alpine", "node:20" }
    /\ policy_files \in { fs \in FileSystems : \A i \in 1..4 : fs[i].file = AbsentFile }
    /\ runner = "SnpxRunner"
    /\ container_name = ""
    /\ security_policy = None
    /\ falco_enabled = FALSE
    /\ flags = << >> /\ args = << >>
    /\ transport = "Stdio"
    /\ policy_config = None
    /\ written = << >> /\ sessions = << >> /\ host_cmds = << >>
    /\ NoRun
    /\ NoCall

\* ContainerExecutor::with_policy of the shared library (common/src/lib.rs
\* 69-81): the name from the process id and the reading of the system clock
NewSession ==
    /\ pc = "sessions"
    /\ Len(sessions) < MaxSessions
    /\ \E timestamp \in Clocks :
         /\ container_name' = ContainerName(process_id, timestamp)
         /\ sessions' = Append(sessions, ContainerName(process_id, timestamp))
    /\ UNCHANGED << pc, runner, policy_arg, policy_config, docker_image,
                    flags, args, transport, child, child_status, sigint,
                    engine_cmds, stop_outcome, result, exit_code, called, ret,
                    process_id, security_policy, falco_enabled, policy_files,
                    written, host_cmds >>

\* ContainerExecutor::new of the legacy crate (src/lib.rs 304-324)
NewLegacySession ==
    /\ pc = "sessions"
    /\ Len(sessions) < MaxSessions
    /\ \E timestamp \in Clocks :
         LET loaded == find_and_load(policy_files).result
         IN  /\ container_name' = LegacyContainerName(process_id, timestamp)
             /\ security_policy' = loaded.policy
             /\ falco_enabled' = (loaded.ok /\ Unwrap(loaded.policy).spec.falco.enabled)
             /\ sessions' = Append(sessions, LegacyContainerName(process_id, timestamp))
    /\ UNCHANGED << pc, runner, policy_arg, policy_config, docker_image,
                    flags, args, transport, child, child_status, sigint,
                    engine_cmds, stop_outcome, result, exit_code, called, ret,
                    process_id, policy_files, written, host_cmds >>

NextSessions == NewSession \/ NewLegacySession

SpecSessions == InitSessions /\ [][NextSessions]_vars

\* C18: any two executors constructed in the same process, however close
\* together in time, have distinct container names; every name is
\* <prefix>-<process id>-<clock reading in nanoseconds>.
C18_DistinctSessionNames ==
    /\ \A i \in 1..Len(sessions) :
         \E timestamp \in Clocks :
            sessions[i] \in { "container-" \o ToDec(process_id) \o "-" \o ToDec(timestamp),
                              "snpx-" \o ToDec(process_id) \o "-" \o ToDec(timestamp) }
    /\ \A i, j \in 1..Len(sessions) : i # j => sessions[i] # sessions[j]

-----------------------------------------------------------------------------
(* Internal and startup errors *)

\* the file named with --policy does not parse
ParseFailed == args # << >> /\ IsSome(policy_arg) /\ ~Unwrap(policy_arg).ok

\* run_containerized returned a spawn failure or a wait failure
SpawnOrWaitFailed ==
    result \in { Err("Failed to spawn docker command"),
                 Err("Failed to wait for docker command") }

\* C15: every internal or startup error ends the launcher with exit code 1: a
\* --policy file that fails to parse, an engine that is unavailable (no
\* fallback), a spawn failure and a wait failure; after a parse failure or
\* with the engine unavailable no engine child is ever spawned; in none of the
\* four cases is a stop request issued.
C15_ErrorsExitWithOne ==
    /\ (pc = "main" /\ ParseFailed) ~> (pc = "exited" /\ exit_code = Some(1))
    /\ (pc = "result" /\ SpawnOrWaitFailed) ~> (pc = "exited" /\ exit_code = Some(1))
    /\ [](ParseFailed =>
            /\ pc \in { "main", "exited" }
            /\ pc = "exited" => exit_code = Some(1)
            /\ engine_cmds = << >> /\ child = "none")
    /\ []((pc = "exited" /\ container_name # "" /\ CmdsOf(engine_cmds, "run") = { }) =>
            /\ exit_code = Some(1)
            /\ child = "none"
            /\ CmdsOf(engine_cmds, "stop") = { } /\ stop_outcome = "none")
    /\ [](SpawnOrWaitFailed =>
            /\ pc \in { "result", "exited" }
            /\ pc = "exited" => exit_code = Some(1)
            /\ CmdsOf(engine_cmds, "stop") = { } /\ stop_outcome = "none")

C15_Witness ==
    /\ pc = "exited"
    /\ result = Err("Failed to wait for docker command")
    /\ exit_code = Some(1)
    /\ child = "waiterr"
    /\ CmdsOf(engine_cmds, "stop") = { }

-----------------------------------------------------------------------------
(* The failure to write the monitor rule file *)

\* the executor's monitoring is on and its policy has a rule file to produce
RuleFileDue ==
    /\ falco_enabled
    /\ IsSome(security_policy)
    /\ Unwrap(security_policy).spec.falco.enabled
    /\ Unwrap(security_policy).spec.falco.rules # << >>

\* C21: a failure to write the generated rule file is fatal: the invocation is
\* aborted with the error, so a session whose monitoring is active is never
\* launched without its rule file and its monitor labels.
C21_WriteFailureFatal ==
    \A i \in CmdsOf(engine_cmds, "run") :
        RuleFileDue =>
            /\ written # << >>
            /\ CountOf(engine_cmds[i], "--label") = 2

-----------------------------------------------------------------------------
(* The translation of the policy to Rego (src/src/opa.rs) *)

\* longest list drawn for the four lists policy_to_rego reads
MaxList == 2

\* SecurityPolicy of opa.rs, with the two sections of PolicySpec policy_to_rego
\* reads: FilesystemSpec.allowed_paths / blocked_paths and
\* NetworkSpec.allowed_domains / blocked_ports
OpaSecurityPolicy ==
    [ spec : [ filesystem : [ allowed_paths : SeqsUpTo({ "/usr/local/lib", "/tmp" }, MaxList),
                              blocked_paths : SeqsUpTo({ "/tmp" }, MaxList) ],
               network : [ allowed_domains : SeqsUpTo({ "github.com" }, MaxList),
                           blocked_ports : SeqsUpTo({ "22", "3306" }, MaxList) ] ] ]

\* a variant of RegoElements that writes the elements last to first
RECURSIVE RegoElements_reversed(_)
RegoElements_reversed(values) ==
    IF values = << >> THEN ""
    ELSE RegoElements_reversed(Tail(values)) \o "        \"" \o Head(values) \o "\",\n"

\* lines 143-145, 153-155, 165-167, 175-177: one quoted element per line
RECURSIVE RegoElements(_)
RegoElements(values) ==
    IF values = << >> THEN ""
    ELSE "        \"" \o Head(values) \o "\",\n" \o RegoElements(Tail(values))

\* a variant of policy_to_rego that defines domain_matches with one body only
policy_to_rego_one_domain_body(policy) ==
    "package snpx.policy\n\n# Auto-generated from snpx.yaml\n\n"
    \o "# Filesystem policies\n"
    \o "allow_filesystem_access(path) {\n"
    \o "    # Path is in allowed paths\n"
    \o "    allowed_paths = [\n"
    \o RegoElements(policy.spec.filesystem.allowed_paths)
    \o "    ]\n"
    \o "    startswith_any(path, allowed_paths)\n"
    \o "}\n\n"
    \o "deny_filesystem_access(path) {\n"
    \o "    # Path is in blocked paths\n"
    \o "    blocked_paths = [\n"
    \o RegoElements(policy.spec.filesystem.blocked_paths)
    \o "    ]\n"
    \o "    startswith_any(path, blocked_paths)\n"
    \o "}\n\n"
    \o "# Network policies\n"
    \o "allow_network_access(domain) {\n"
    \o "    # Domain is in allowed domains\n"
    \o "    allowed_domains = [\n"
    \o RegoElements(policy.spec.network.allowed_domains)
    \o "    ]\n"
    \o "    domain_matches(domain, allowed_domains)\n"
    \o "}\n\n"
    \o "deny_network_port(port) {\n"
    \o "    # Port is in blocked ports\n"
    \o "    blocked_ports = [\n"
    \o RegoElements(policy.spec.network.blocked_ports)
    \o "    ]\n"
    \o "    port == blocked_ports[_]\n"
    \o "}\n\n"
    \o "# Helper functions\n"
    \o "startswith_any(str, prefixes) {\n"
    \o "    startswith(str, prefixes[_])\n"
    \o "}\n\n"
    \o "domain_matches(domain, allowed) {\n"
    \o "    allowed[_] == domain\n"
    \o "}\n"

\* OpaManager::policy_to_rego, lines 132-197; it always returns Ok(rego)
policy_to_rego(policy) ==
    "package snpx.policy\n\n# Auto-generated from snpx.yaml\n\n"
    \o "# Filesystem policies\n"
    \o "allow_filesystem_access(path) {\n"
    \o "    # Path is in allowed paths\n"
    \o "    allowed_paths = [\n"
    \o RegoElements(policy.spec.filesystem.allowed_paths)
    \o "    ]\n"
    \o "    startswith_any(path, allowed_paths)\n"
    \o "}\n\n"
    \o "deny_filesystem_access(path) {\n"
    \o "    # Path is in blocked paths\n"
    \o "    blocked_paths = [\n"
    \o RegoElements(policy.spec.filesystem.blocked_paths)
    \o "    ]\n"
    \o "    startswith_any(path, blocked_paths)\n"
    \o "}\n\n"
    \o "# Network policies\n"
    \o "allow_network_access(domain) {\n"
    \o "    # Domain is in allowed domains\n"
    \o "    allowed_domains = [\n"
    \o RegoElements(policy.spec.network.allowed_domains)
    \o "    ]\n"
    \o "    domain_matches(domain, allowed_domains)\n"
    \o "}\n\n"
    \o "deny_network_port(port) {\n"
    \o "    # Port is in blocked ports\n"
    \o "    blocked_ports = [\n"
    \o RegoElements(policy.spec.network.blocked_ports)
    \o "    ]\n"
    \o "    port == blocked_ports[_]\n"
    \o "}\n\n"
    \o "# Helper functions\n"
    \o "startswith_any(str, prefixes) {\n"
    \o "    startswith(str, prefixes[_])\n"
    \o "}\n\n"
    \o "domain_matches(domain, allowed) {\n"
    \o "    allowed[_] == domain\n"
    \o "}\n"
    \o "domain_matches(domain, allowed) {\n"
    \o "    endswith(domain, concat(\".\", allowed[_]))\n"
    \o "}\n"

-----------------------------------------------------------------------------
(* policy_to_rego applied to policies drawn from a bounded set *)

InitRego ==
    /\ pc = "rego"
    /\ security_policy \in { Some(p) : p \in OpaSecurityPolicy }
    /\ process_id = 0
    /\ runner = "NpxRunner"
    /\ docker_image = "node:20"
    /\ container_name = ""
    /\ falco_enabled = FALSE
    /\ flags = << >> /\ args = << >>
    /\ transport = "Stdio"
    /\ policy_config = None
    /\ policy_files = << >> /\ written = << >> /\ sessions = << >> /\ host_cmds = << >>
    /\ NoRun
    /\ NoCall

CallPolicyToRego ==
    /\ pc = "rego"
    /\ Returned("policy_to_rego", policy_to_rego(Unwrap(security_policy)))

NextRego == CallPolicyToRego

SpecRego == InitRego /\ [][NextRego]_vars


\* the position of the first line end of the text at or after position from
FirstLineEnd(text, from) ==
    CHOOSE i \in from..Len(text) :
        /\ SubSeq(text, i, i) = "\n"
        /\ \A k \in from..(i - 1) : SubSeq(text, k, k) # "\n"

\* the lines of the text from position from on, where a line starts
RECURSIVE LinesFrom(_, _)
LinesFrom(text, from) ==
    IF from > Len(text) THEN << >>
    ELSE LET end == FirstLineEnd(text, from)
         IN  << SubSeq(text, from, end - 1) >> \o LinesFrom(text, end + 1)

\* the lines of a text whose lines all end with a line end, first to last
LinesOf(text) == LinesFrom(text, 1)

\* the text policy_to_rego returned, line by line
RegoLines == LinesOf(ret)

\* the sum of the lengths of the four lists of the translated policy
RegoListSizes ==
    LET spec == Unwrap(security_policy).spec
    IN  Len(spec.filesystem.allowed_paths) + Len(spec.filesystem.blocked_paths)
        + Len(spec.network.allowed_domains) + Len(spec.network.blocked_ports)

\* C22 as stated: the text holds the package header once and one definition
\* of each of the helper predicates startswith_any and domain_matches,
\* whatever the sizes of the four lists
C22_HeaderAndHelpersOnce ==
    (pc = "returned" /\ called = "policy_to_rego") =>
        /\ CountOf(RegoLines, "package snpx.policy") = 1
        /\ CountOf(RegoLines, "startswith_any(str, prefixes) {") = 1
        /\ CountOf(RegoLines, "domain_matches(domain, allowed) {") = 1

\* C22: the text holds the package header once, one definition of
\* startswith_any and two definitions of domain_matches (one per alternative
\* body: equality, and suffix after a dot), whatever the sizes of the four
\* lists, all empty included
C22_HeaderOnceHelpersFixed ==
    (pc = "returned" /\ called = "policy_to_rego") =>
        /\ CountOf(RegoLines, "package snpx.policy") = 1
        /\ RegoLines[1] = "package snpx.policy"
        /\ CountOf(RegoLines, "startswith_any(str, prefixes) {") = 1
        /\ CountOf(RegoLines, "domain_matches(domain, allowed) {") = 2
        /\ CountOf(RegoLines, "    allowed[_] == domain") = 1
        /\ CountOf(RegoLines, "    endswith(domain, concat(\".\", allowed[_]))") = 1

C22_Witness ==
    /\ pc = "returned" /\ called = "policy_to_rego"
    /\ RegoListSizes = 0
    /\ CountOf(RegoLines, "domain_matches(domain, allowed) {") = 2


\* the position of a line that occurs in the lines
LineAt(lines, line) == CHOOSE i \in 1..Len(lines) : lines[i] = line

\* the position of the first line equal to line after position from
NextLineAt(lines, line, from) ==
    CHOOSE j \in (from + 1)..Len(lines) :
        /\ lines[j] = line
        /\ \A k \in (from + 1)..(j - 1) : lines[k] # line

\* the line of a list element: indented, quoted, followed by a comma
QuotedLine(element) == "        \"" \o element \o "\","

IsQuotedLine(line) == Len(line) >= 9 /\ SubSeq(line, 1, 9) = "        \""

\* the predicate opened by head binds the list name to exactly the values, in
\* their order, between "name = [" and the next "]", inside its own braces
ListInPredicate(lines, head, name, values) ==
    /\ CountOf(lines, head) = 1
    /\ CountOf(lines, "    " \o name \o " = [") = 1
    /\ LET start == LineAt(lines, head)
           open == LineAt(lines, "    " \o name \o " = [")
           close == NextLineAt(lines, "    ]", open)
           end == NextLineAt(lines, "}", start)
       IN  /\ start < open
           /\ close < end
           /\ SubSeq(lines, open + 1, close - 1)
                  = [ i \in 1..Len(values) |-> QuotedLine(values[i]) ]

\* the layout of the lines of a translation of the policy section spec
SectionOrderAndLists(lines, spec) ==
    LET helpers == LineAt(lines, "# Helper functions")
    IN  /\ lines[1] = "package snpx.policy"
        /\ ListInPredicate(lines, "allow_filesystem_access(path) {",
                           "allowed_paths", spec.filesystem.allowed_paths)
        /\ ListInPredicate(lines, "deny_filesystem_access(path) {",
                           "blocked_paths", spec.filesystem.blocked_paths)
        /\ ListInPredicate(lines, "allow_network_access(domain) {",
                           "allowed_domains", spec.network.allowed_domains)
        /\ ListInPredicate(lines, "deny_network_port(port) {",
                           "blocked_ports", spec.network.blocked_ports)
        /\ 1 < LineAt(lines, "allow_filesystem_access(path) {")
        /\ LineAt(lines, "allow_filesystem_access(path) {")
               < LineAt(lines, "deny_filesystem_access(path) {")
        /\ LineAt(lines, "deny_filesystem_access(path) {")
               < LineAt(lines, "allow_network_access(domain) {")
        /\ LineAt(lines, "allow_network_access(domain) {")
               < LineAt(lines, "deny_network_port(port) {")
        /\ CountOf(lines, "# Helper functions") = 1
        /\ NextLineAt(lines, "}", LineAt(lines, "deny_network_port(port) {")) < helpers
        /\ \A i \in 1..Len(lines) :
               lines[i] \in { "startswith_any(str, prefixes) {",
                              "domain_matches(domain, allowed) {" } => helpers < i
        /\ Cardinality({ i \in 1..Len(lines) : IsQuotedLine(lines[i]) }) = RegoListSizes

\* C27: the text has a fixed order of sections: header, allow_filesystem_access,
\* deny_filesystem_access, allow_network_access, deny_network_port, then the
\* helper definitions after all section bodies; each of the four lists appears
\* only inside its own predicate, every element quoted verbatim, in source
\* order and with the same multiplicity
C27_SectionOrderAndLists ==
    (pc = "returned" /\ called = "policy_to_rego") =>
        SectionOrderAndLists(RegoLines, Unwrap(security_policy).spec)

C27_Witness ==
    /\ pc = "returned" /\ called = "policy_to_rego"
    /\ Unwrap(security_policy).spec.filesystem.allowed_paths = << "/tmp", "/tmp" >>
    /\ Unwrap(security_policy).spec.filesystem.blocked_paths = << "/tmp" >>
    /\ Unwrap(security_policy).spec.network.blocked_ports = << "3306", "22" >>
    /\ CountOf(RegoLines, QuotedLine("/tmp")) = 3


\* the lines a structured rule contributes: rule and condition always, the
\* other four when the field is not empty
RuleLines(rule) ==
    << "- rule: " \o rule.name >>
    \o (IF rule.description = "" THEN << >> ELSE << "  desc: " \o rule.description >>)
    \o << "  condition: " \o rule.condition >>
    \o (IF rule.output = "" THEN << >> ELSE << "  output: " \o rule.output >>)
    \o (IF rule.priority = "" THEN << >> ELSE << "  priority: " \o rule.priority >>)
    \o (IF rule.action = "" THEN << >> ELSE << "  action: " \o rule.action >>)

\* the lines a rule-set contributes
RECURSIVE RuleSetLines(_)
RuleSetLines(rule_set) ==
    IF ~rule_set.enabled THEN << >>
    ELSE IF IsSome(rule_set.rule_content)
         THEN LinesOf(Unwrap(rule_set.rule_content) \o "\n")
         ELSE IF rule_set.rules = << >> THEN << >>
         ELSE RuleLines(Head(rule_set.rules))
              \o RuleSetLines([ rule_set EXCEPT !.rules = Tail(rule_set.rules) ])

RECURSIVE RuleSetsLines(_)
RuleSetsLines(rule_sets) ==
    IF rule_sets = << >> THEN << >>
    ELSE RuleSetLines(Head(rule_sets)) \o RuleSetsLines(Tail(rule_sets))

IsNotBlank(line) == line # ""

\* C26: the text written to the rule file is one header comment followed by
\* what the enabled rule-sets contribute, in list order: the inline text
\* verbatim plus a newline and none of the structured rules for a rule-set
\* with inline text; otherwise per structured rule the lines rule, desc,
\* condition, output, priority, action in that order, rule and condition
\* always, the others only when the field is not empty; nothing for a
\* disabled rule-set. (Blank lines separate the structured rules.)
C26_RuleFileLayout ==
    \A i \in 1..Len(written) :
        /\ SelectSeq(LinesOf(written[i].content), IsNotBlank)
               = << "# Falco rules generated by snpx" >>
                 \o RuleSetsLines(Unwrap(security_policy).spec.falco.rules)
        /\ \A k \in 1..Len(Unwrap(security_policy).spec.falco.rules) :
               LET rule_set == Unwrap(security_policy).spec.falco.rules[k]
               IN  (rule_set.enabled /\ IsSome(rule_set.rule_content))
                       => IsSubstring(Unwrap(rule_set.rule_content) \o "\n",
                                      written[i].content)

C26_Witness ==
    /\ pc = "returned" /\ called = "generate_falco_rule_file"
    /\ written # << >>
    /\ Len(Unwrap(security_policy).spec.falco.rules) = 2
    /\ LET first == Unwrap(security_policy).spec.falco.rules[1]
           second == Unwrap(security_policy).spec.falco.rules[2]
       IN  /\ first.enabled /\ IsSome(first.rule_content) /\ first.rules = << FullRule >>
           /\ second.enabled /\ second.rule_content = None
           /\ second.rules = << MinimalRule, PartialRule >>


\* C24: cleanup on interrupt is fire-and-forget: once the stop request is
\* issued the executor does not wait for it, so a stop request still in
\* flight never holds the process back from terminating with code 130
C24_StopFireAndForget ==
    (CmdsOf(engine_cmds, "stop") # { } /\ stop_outcome = "inflight")
        => (pc = "exited" /\ exit_code = Some(130))

-----------------------------------------------------------------------------
(* detect_transport and the invocation run_containerized builds from it *)

InitTransport ==
    /\ pc = "transport"
    /\ runner \in Runners \cup LegacyRunners
    /\ policy_config \in (IF runner \in Runners THEN ArgsPolicies ELSE { None })
    /\ docker_image \in (IF runner \in Runners THEN Images(runner) ELSE { "node:20" })
    /\ \E pid \in Pids, timestamp \in Clocks :
          container_name = IF runner \in Runners THEN ContainerName(pid, timestamp)
                           ELSE LegacyContainerName(pid, timestamp)
    /\ flags \in (IF runner \in Runners THEN FlagLists(runner) ELSE LegacyFlagLists(runner))
    /\ args \in TtyArgLists
    /\ transport = "Stdio"
    /\ NoRun
    /\ NoCall
    /\ NoLegacy

\* the package name run_containerized hands to detect_transport
\* (common lib.rs 128-129, legacy lib.rs 402-403)
PackageName == IF args = << >> THEN "" ELSE Head(args)

\* Runner::detect_transport of the runner on the package name
CallDetectTransport ==
    /\ pc = "transport"
    /\ Returned("detect_transport",
                IF runner \in Runners THEN detect_transport(runner, PackageName)
                ELSE legacy_detect_transport(runner, PackageName))

\* run_containerized up to the invocation it hands to the engine
\* (common lib.rs 128-132, legacy lib.rs 402-406)
CallRunInvocation ==
    /\ pc = "transport"
    /\ Returned("run_containerized",
                IF runner \in Runners THEN RunInvocation(Executor, runner, flags, args)
                ELSE legacy_create_docker_args(LegacyExecutor, runner,
                         legacy_build_command_args(runner, flags, args),
                         legacy_detect_transport(runner, PackageName), process_id, TRUE))

NextTransport == CallDetectTransport \/ CallRunInvocation

SpecTransport == InitTransport /\ [][NextTransport]_vars

\* C28 as stated: detect_transport answers Stdio for every package name, the
\* empty one included, and the invocation run_containerized builds contains
\* no -t at all, whatever the flags and the pass-through arguments are
C28_StdioNeverTty ==
    /\ (pc = "returned" /\ called = "detect_transport") => ret = "Stdio"
    /\ (pc = "returned" /\ called = "run_containerized") => CountOf(ret, "-t") = 0

\* C28: detect_transport answers Stdio for every package name, the empty one
\* included, so the invocation run_containerized builds has no -t among the
\* engine's options; a -t in it is one of the flags or pass-through arguments,
\* handed on to the wrapped command after the image
C28_StdioNoTtyOption ==
    /\ (pc = "returned" /\ called = "detect_transport") => ret = "Stdio"
    /\ (pc = "returned" /\ called = "run_containerized") =>
           /\ CountOf(EngineOptions(ret), "-t") = 0
           /\ CountOf(ret, "-t") = CountOf(flags, "-t") + CountOf(args, "-t")
           /\ EngineOptions(ret)[Len(EngineOptions(ret))] = docker_image

C28_Witness ==
    /\ pc = "returned" /\ called = "run_containerized"
    /\ args = << "cowsay", "-t" >>
    /\ CountOf(ret, "-t") = 1
    /\ CountOf(EngineOptions(ret), "-t") = 0


\* the wait on the child completed with a status that carries no exit code
EndedBySignal == result = OkStatus(None)

\* the exit codes the program can end with: the child's own, 130, 1
ProgramExitCodes ==
    { Some(1), Some(130) }
    \cup (IF child = "exited" /\ IsSome(child_status) THEN { child_status } ELSE { })

\* C30: when the wait on the child completes with a status that carries no
\* exit code (the child was ended by a signal) the program terminates, with
\* exit code 1, the code of an internal error; the program's exit code is
\* always the child's own code, 130 or 1
C30_SignalledChildExitsOne ==
    /\ [](pc = "exited" => (/\ exit_code \in ProgramExitCodes
                            /\ EndedBySignal => exit_code = Some(1)))
    /\ ((pc = "result" /\ EndedBySignal) ~> (pc = "exited" /\ exit_code = Some(1)))

C30_Witness ==
    /\ pc = "exited"
    /\ child = "exited" /\ child_status = None
    /\ EndedBySignal
    /\ exit_code = Some(1)

-----------------------------------------------------------------------------
(* The binaries of both crates, from start to exit *)

InitBinaries == Init \/ InitLegacy

NextBinaries ==
    \/ NoPackage
    \/ LoadPolicy
    \/ WithPolicy
    \/ CheckDockerAvailable
    \/ RunContainerized
    \/ LegacyNoPackage
    \/ LegacyLoadPolicy
    \/ LegacyNew
    \/ LegacyCheckDockerAvailable
    \/ LegacyRunContainerized
    \/ LegacyRunFallback
    \/ ChildExits
    \/ ChildWaitFails
    \/ Interrupt
    \/ SelectChild
    \/ SelectCtrlC
    \/ StopCompletes
    \/ MainMatch

SpecBinaries == InitBinaries /\ [][NextBinaries]_vars

\* C29: a stop request is issued only from the interrupt branch of the wait:
\* the engine child was spawned, its completion has not been observed and an
\* interrupt is pending; a missing package argument, a policy parse failure,
\* an unavailable engine, a fallback run, a spawn failure, a wait failure and
\* a normal child exit (all of which leave the wait with a result or never
\* reach it) issue none, and a process issues at most one
C29_StopOnlyOnInterrupt ==
    /\ [][ CmdsOf(engine_cmds', "stop") # CmdsOf(engine_cmds, "stop") =>
              /\ pc = "waiting"
              /\ sigint
              /\ child # "none"
              /\ result = NoResult
              /\ CmdsOf(engine_cmds, "run") # { }
              /\ CmdsOf(engine_cmds, "stop") = { }
         ]_vars
    /\ [](/\ Cardinality(CmdsOf(engine_cmds, "stop")) <= 1
          /\ CmdsOf(engine_cmds, "stop") # { } =>
                /\ result = NoResult
                /\ host_cmds = << >>
                /\ args # << >>
                /\ ~ParseFailed)

\* the one stop request of an interrupted run
C29_Witness ==
    /\ Cardinality(CmdsOf(engine_cmds, "stop")) = 1
    /\ pc = "exited" /\ exit_code = Some(130)
    /\ child = "running"


\* the legacy executor with the runtime section of its policy replaced
WithRuntime(self, runtime) ==
    IF IsSome(self.security_policy)
    THEN [ self EXCEPT !.security_policy =
               Some([ Unwrap(self.security_policy) EXCEPT !.spec.runtime = runtime ]) ]
    ELSE self

\* C25: the policy's runtime.timeout and max_restart_attempts have no effect
\* on execution: the invocation (and the rule file) built from a policy is
\* the one built from the policy with any other values of the two fields; a
\* session leaves the wait only because the child's end or a wait failure is
\* observed or because of an interrupt, never because of a timer, and the
\* child is never started a second time
C25_RuntimeFieldsInert ==
    /\ [](\A i \in CmdsOf(engine_cmds, "run") :
            \E write_ok \in BOOLEAN :
               \A runtime \in RuntimeSpec :
                  /\ engine_cmds[i]
                       = legacy_create_docker_args(
                             WithRuntime(LegacyExecutor, runtime), runner,
                             legacy_build_command_args(runner, flags, args),
                             legacy_detect_transport(runner, args[1]),
                             process_id, write_ok)
                  /\ written = FalcoIntegration(WithRuntime(LegacyExecutor, runtime),
                                                process_id, write_ok).writes)
    /\ [][ /\ (pc = "waiting" /\ pc' # "waiting") =>
                \/ child \in { "exited", "waiterr" } /\ pc' = "result"
                \/ /\ sigint
                   /\ pc' \in { "cleanup", "exited" }
                   /\ CmdsOf(engine_cmds', "stop") # { }
           /\ child' = "running" => child \in { "none", "running" }
           /\ Cardinality(CmdsOf(engine_cmds', "run")) <= 1
         ]_vars

\* a run under a policy that declares a timeout and a restart limit, ended by
\* the child's own exit
C25_Witness ==
    /\ security_policy = Some(TimedPolicy)
    /\ CmdsOf(engine_cmds, "run") # { }
    /\ pc = "exited"
    /\ child = "exited"
    /\ result = OkStatus(child_status)

=============================================================================
